---- MODULE Spec2Model ----
(***************************************************************************)
(* A model of gofer's request path.                                        *)
(*                                                                         *)
(* Agent side (gofer/messaging/consumer.py): the ReceiverThread fetches    *)
(* messages and hands them to Consumer.received, which loads the envelope, *)
(* validates its version, dispatches it through RequestConsumer.dispatch   *)
(* (window check, 'started' reply, inline or pooled execution, terminal    *)
(* reply) and acknowledges it.  The pending-store replay thread and the    *)
(* pool workers call back into the same consumer.                          *)
(*                                                                         *)
(* `trace` is the ordered log of what the consumer did.  A "started" or a  *)
(* "reply" entry is one call of Producer.send made by RequestConsumer's    *)
(* __send; its `ok` field is FALSE when that call raised (the failure is   *)
(* logged by sendstarted/sendreply and the message did not leave).  A      *)
(* "window" entry records what the envelope's window really was (none,     *)
(* future, current, past) at the moment __dispatch checked it.             *)
(*                                                                         *)
(* Client side (gofer/rmi/policy.py): one call of Synchronous.send, which  *)
(* sends the request, searches the reply queue for 'started' (phase A,     *)
(* timeout.start) and then for progress reports and the terminal reply     *)
(* (phase B, timeout.duration).  The client clock counts ticks of half a   *)
(* second, so that int(timeout) truncates.                                 *)
(***************************************************************************)
EXTENDS Integers, Sequences, FiniteSets, TLC

\* ------------------------------------------------------------- bounds
MaxMsgs == 2        \* messages the receive loop fetches
MaxTime == 3        \* the clock stops advancing here

VARIABLES
    now,        \* agent clock
    fetched,    \* number of messages fetched so far; the n-th carries sn = n
    inbox,      \* the messages fetched, by sn
    pc,         \* position of the receive thread ("rt") and replay thread ("pt")
    cur,        \* envelope each of the two threads is handling
    res,        \* result each of the two threads is about to reply with
    lock,       \* owner of the consumer's endpoint lock, or "free"
    pending,    \* the pending store (PendingQueue)
    poolq,      \* requests enqueued on the thread pool
    wk,         \* pool workers
    poolsize,   \* messaging.threads
    trace,      \* ordered log of the consumer's observable steps
    \* client side: one call of Synchronous.send
    rq,         \* the reply queue: envelopes delivered and not yet fetched
    emitted,    \* the last kind of reply the agent emitted for the call
    nprogress,  \* progress reports the agent emitted
    nforeign,   \* envelopes of other calls delivered to the reply queue
    spc,        \* position of the caller inside send
    timeout,    \* the policy's timeout: start and duration, in seconds
    progress,   \* the policy's progress option: "none", "ok" or "raises"
    remaining,  \* __get_reply's local timeout, in ticks
    ftimeout,   \* timeout of the fetch in progress, in ticks
    fwait,      \* how long the fetch in progress has blocked, in ticks
    swait,      \* how long the search in progress has taken, in ticks
    found,      \* what the last search returned
    read,       \* the envelopes the searches returned, in order
    called,     \* the progress reports handed to the callback, in order
    waited,     \* time spent in the searches of __get_reply that returned
    outcome,    \* how send ended
    acked,      \* the envelopes Reader.search acknowledged and dropped, in order
    producer,   \* the producer Synchronous.send created: "none", "open" or "closed"
    reader,     \* the reader Synchronous.send created: its endpoint and __opened
    \* client side: an Asynchronous policy and its triggers
    ctag,       \* the policy's correlation tag ("" when not set)
    atimeout,   \* the policy's timeout: start and duration, None when not set
    atrigger,   \* the policy's trigger option (1 is manual)
    watchdog,   \* the policy's watchdog ("" when not set)
    nextsn,     \* what getuuid() returns next
    triggers,   \* every Trigger constructed, in order
    alog,       \* ordered log of Producer.send and watchdog.track calls
    returned,   \* how each call of send, broadcast or a trigger ended, in order
    tpc,        \* position of each thread that is calling the one shared trigger
    \* agent side: the plugin that owns the consumer
    run,        \* ReceiverThread.__run
    started,    \* RequestConsumer.__started
    attached,   \* Plugin.consumer is set
    managed,    \* the descriptor's queue.managed
    not_managed,\* the plugin's uuid is in Domain.node.not_managed
    queue,      \* the agent queue on the broker: "none", "declared" or "deleted"
    dpc,        \* position of the thread that called Plugin.detach
    ndetach,    \* calls of Plugin.detach so far
    addr,       \* whether messaging.uuid and messaging.url are set in the descriptor
    attaching,  \* Plugin.attach is under way (its detach, then its own steps)
    nattach,    \* calls of Plugin.attach so far
    receiver,   \* the receiver the receive thread opened: "none", "open" or "closed"
    \* agent side: the plugin loader
    descriptors,\* the sorted list PluginDescriptor.load() returned
    lidx,       \* position of PluginLoader.load in that list
    plugins,    \* Plugin.plugins, the registry: plugin by name and by module path
    dispatcher, \* the dispatcher table of each plugin constructed
    loaded,     \* the list PluginLoader.load is building
    Remote,     \* the Remote registry: the plugins whose module registered in it
    Actions,    \* the Actions registry, likewise
    initializer,\* Initializer.initializer: the functions, named by declaring plugin
    actions,    \* plugin.actions of each plugin
    initialized,\* for each plugin, the imports during which its initializer was run
    packages,   \* Transport.packages: the transport module bound to each URL
    tlog,       \* the calls of Transport.bind and Transport(...) made so far
    tt,         \* the threads constructing a Transport: position and locals
    life,       \* one RequestConsumer: its two __started flags and its two threads
    llog        \* the calls of start() and stop() made on it, with what they did

agent == <<now, fetched, inbox, pc, cur, res, lock, pending, poolq, wk, poolsize, trace>>

client == <<rq, emitted, nprogress, nforeign, spc, timeout, progress, remaining,
            ftimeout, fwait, swait, found, read, called, waited, outcome, acked,
            producer, reader>>

async == <<ctag, atimeout, atrigger, watchdog, nextsn, triggers, alog, returned, tpc>>

plugin == <<run, started, attached, managed, not_managed, queue, dpc, ndetach,
            addr, attaching, nattach, receiver>>

loader == <<descriptors, lidx, plugins, dispatcher, loaded,
            Remote, Actions, initializer, actions, initialized>>

transport == <<packages, tlog, tt>>

lifecycle == <<life, llog>>

vars == <<now, fetched, inbox, pc, cur, res, lock, pending, poolq, wk, poolsize, trace,
          rq, emitted, nprogress, nforeign, spc, timeout, progress, remaining,
          ftimeout, fwait, swait, found, read, called, waited, outcome, acked,
          producer, reader,
          ctag, atimeout, atrigger, watchdog, nextsn, triggers, alog, returned, tpc,
          run, started, attached, managed, not_managed, queue, dpc, ndetach,
          addr, attaching, nattach, receiver,
          descriptors, lidx, plugins, dispatcher, loaded,
          Remote, Actions, initializer, actions, initialized,
          packages, tlog, tt,
          life, llog>>

\* What an action of one part leaves alone: every other part.
besidesAgent == <<lifecycle, client, async, plugin, loader, transport>>

besidesClient == <<lifecycle, agent, async, plugin, loader, transport>>

besidesAsync == <<lifecycle, agent, client, plugin, loader, transport>>

besidesPlugin == <<lifecycle, client, async, loader, transport>>

besidesLoader == <<lifecycle, agent, client, async, plugin, transport>>

besidesTransport == <<agent, client, async, plugin, loader, lifecycle>>

besidesLifecycle == <<agent, client, async, plugin, loader, transport>>

\* ------------------------------------------------------------- data
version == "1"

Versions == {"1", "0"}

NoWindow == [has |-> FALSE, begin |-> 0, duration |-> 0]

Windows ==
    {NoWindow} \cup
    {[has |-> TRUE, begin |-> b, duration |-> d] : b \in 0..(MaxTime - 1), d \in {0}}

\* What a fetched message can hold: content that fails to load, or an envelope.
Messages ==
    {[loads |-> FALSE, version |-> version, replyto |-> FALSE, window |-> NoWindow]} \cup
    [loads : {TRUE}, version : Versions, replyto : BOOLEAN, window : Windows]

NoEnv == [sn |-> 0, loads |-> FALSE, version |-> version,
          replyto |-> FALSE, window |-> NoWindow]

Envelope(m, sn) ==
    [sn |-> sn, loads |-> m.loads, version |-> m.version,
     replyto |-> m.replyto, window |-> m.window]

Ev(e, sn, r, ok) == [ev |-> e, sn |-> sn, res |-> r, ok |-> ok]

IdleWorker == [st |-> "idle", env |-> NoEnv, res |-> "none"]

\* Window.future() / Window.past(): a window equal to now is current.
future(w, t) == t < w.begin

past(w, t) == t > w.begin + w.duration

\* What the window of an envelope is at time t.
WindowAt(envelope, t) ==
    IF ~envelope.window.has THEN "none"
    ELSE IF future(envelope.window, t) THEN "future"
    ELSE IF past(envelope.window, t) THEN "past"
    ELSE "current"

\* ------------------------------------------------------------- pure parts
\* Mutant: the version test is lost.
valid_any(envelope) == TRUE

\* Consumer.valid
valid(envelope) == envelope.version = version

\* RequestConsumer.concurrent: the dispatcher is concurrent when the pool
\* has more than one worker.
concurrent == poolsize > 1

\* Mutant: the past() test is lost.
checkwindow_nopast(envelope, t) ==
    IF ~envelope.window.has THEN "ok"
    ELSE IF future(envelope.window, t) THEN "pending"
    ELSE "ok"

\* Mutant: the future() test is lost.
checkwindow_nofuture(envelope, t) ==
    IF ~envelope.window.has THEN "ok"
    ELSE IF past(envelope.window, t) THEN "missed"
    ELSE "ok"

\* RequestConsumer.__checkwindow: "pending" (WindowPending raised after the
\* envelope was added to the pending queue), "missed" (WindowMissed raised)
\* or "ok".
checkwindow(envelope, t) ==
    IF ~envelope.window.has THEN "ok"
    ELSE IF future(envelope.window, t) THEN "pending"
    ELSE IF past(envelope.window, t) THEN "missed"
    ELSE "ok"

\* Mutant: the replyto test is inverted.
sendstarted_inverted(envelope, ok) ==
    IF envelope.replyto THEN <<>>
    ELSE <<Ev("started", envelope.sn, "none", ok)>>

\* RequestConsumer.sendstarted: the send calls it makes.
sendstarted(envelope, ok) ==
    IF ~envelope.replyto THEN <<>>
    ELSE <<Ev("started", envelope.sn, "none", ok)>>

\* RequestConsumer.sendreply: the send calls it makes.
sendreply(envelope, result, ok) ==
    IF ~envelope.replyto THEN <<>>
    ELSE <<Ev("reply", envelope.sn, result, ok)>>

\* ------------------------------------------------------------- receive thread
\* ReceiverThread.run, while self.__run: where the thread is once a turn of
\* the loop has ended: at the next fetch, or past the loop at receiver.close().
LoopTest == IF run THEN "fetch" ELSE "closing"

\* ReceiverThread.run: one turn of the loop fetched a message, one of msgs.
FetchFrom(msgs) ==
    /\ pc["rt"] = "fetch"
    /\ fetched < MaxMsgs
    /\ \E m \in msgs :
        /\ cur' = [cur EXCEPT !["rt"] = Envelope(m, fetched + 1)]
        /\ inbox' = Append(inbox, Envelope(m, fetched + 1))
    /\ fetched' = fetched + 1
    /\ pc' = [pc EXCEPT !["rt"] = "received"]
    /\ trace' = Append(trace, Ev("fetch", fetched + 1, "none", TRUE))
    /\ UNCHANGED <<now, res, lock, pending, poolq, wk, poolsize>>
    /\ UNCHANGED besidesAgent

Fetch == FetchFrom(Messages)

\* Consumer.received / Consumer.__received up to the call of dispatch:
\* take the endpoint lock, load the envelope, check its version.
\* A load that raises leaves through the finally (unlock) and is logged by
\* ReceiverThread.run; the ack is not reached.
Received ==
    /\ pc["rt"] = "received"
    /\ lock = "free"
    /\ IF ~cur["rt"].loads
       THEN /\ pc' = [pc EXCEPT !["rt"] = LoopTest]
            /\ cur' = [cur EXCEPT !["rt"] = NoEnv]
            /\ trace' = Append(trace, Ev("failed", cur["rt"].sn, "none", TRUE))
            /\ lock' = lock
       ELSE /\ lock' = "rt"
            /\ pc' = [pc EXCEPT !["rt"] =
                        IF valid(cur["rt"]) THEN "checkwindow" ELSE "ack"]
            /\ UNCHANGED <<cur, trace>>
    /\ UNCHANGED <<now, fetched, inbox, res, pending, poolq, wk, poolsize>>
    /\ UNCHANGED besidesAgent

\* RequestConsumer.__dispatch, first statement: __checkwindow.
CheckWindow(t) ==
    /\ pc[t] = "checkwindow"
    /\ lock = t
    /\ LET w == checkwindow(cur[t], now) IN
        /\ pending' = IF w = "pending" THEN Append(pending, cur[t]) ELSE pending
        /\ trace' = Append(trace, Ev("window", cur[t].sn, WindowAt(cur[t], now), TRUE))
                    \o (IF w = "pending"
                        THEN <<Ev("add", cur[t].sn, "none", TRUE)>>
                        ELSE <<>>)
        /\ res' = [res EXCEPT ![t] = IF w = "missed" THEN "WindowMissed" ELSE "none"]
        /\ pc' = [pc EXCEPT ![t] =
                    CASE w = "pending" -> "done"
                      [] w = "missed" -> "reply"
                      [] OTHER -> "started"]
    /\ UNCHANGED <<now, fetched, inbox, cur, lock, poolq, wk, poolsize>>
    /\ UNCHANGED besidesAgent

\* Mutant: sendstarted lets the failure of its send out; the exception
\* leaves __dispatch and the lock is released on the way.
SendStarted_raises(t) ==
    /\ pc[t] = "started"
    /\ lock = t
    /\ \E ok \in BOOLEAN :
        /\ trace' = trace \o sendstarted(cur[t], ok)
        /\ IF ok \/ ~cur[t].replyto
           THEN /\ pc' = [pc EXCEPT ![t] = "dispatch"]
                /\ UNCHANGED <<cur, lock>>
           ELSE /\ pc' = [pc EXCEPT ![t] = IF t = "rt" THEN LoopTest ELSE "idle"]
                /\ cur' = [cur EXCEPT ![t] = NoEnv]
                /\ lock' = "free"
    /\ UNCHANGED <<now, fetched, inbox, res, pending, poolq, wk, poolsize>>
    /\ UNCHANGED besidesAgent

\* RequestConsumer.__dispatch: self.sendstarted(envelope).
SendStarted(t) ==
    /\ pc[t] = "started"
    /\ lock = t
    /\ \E ok \in BOOLEAN : trace' = trace \o sendstarted(cur[t], ok)
    /\ pc' = [pc EXCEPT ![t] = "dispatch"]
    /\ UNCHANGED <<now, fetched, inbox, cur, res, lock, pending, poolq, wk, poolsize>>
    /\ UNCHANGED besidesAgent

\* Mutant: the return after the pooled dispatch is lost, so the inline
\* dispatch and its sendreply follow.
Dispatch_noreturn(t) ==
    /\ pc[t] = "dispatch"
    /\ lock = t
    /\ poolq' = IF concurrent THEN Append(poolq, cur[t]) ELSE poolq
    /\ res' = [res EXCEPT ![t] = "result"]
    /\ trace' = trace \o <<Ev("dispatch", cur[t].sn, "none", TRUE),
                           Ev("exec", cur[t].sn, "result", TRUE)>>
    /\ pc' = [pc EXCEPT ![t] = "reply"]
    /\ UNCHANGED <<now, fetched, inbox, cur, lock, pending, wk, poolsize>>
    /\ UNCHANGED besidesAgent

\* Mutant: the concurrent() test is lost, every dispatch goes to the pool.
Dispatch_pooled(t) ==
    /\ pc[t] = "dispatch"
    /\ lock = t
    /\ poolq' = Append(poolq, cur[t])
    /\ trace' = Append(trace, Ev("dispatch", cur[t].sn, "none", TRUE))
    /\ pc' = [pc EXCEPT ![t] = "done"]
    /\ UNCHANGED <<now, fetched, inbox, cur, res, lock, pending, wk, poolsize>>
    /\ UNCHANGED besidesAgent

\* RequestConsumer.__dispatch: hand the envelope to the dispatcher, either
\* enqueued on the pool with sendreply as the callback (then return), or
\* executed inline.
Dispatch(t) ==
    /\ pc[t] = "dispatch"
    /\ lock = t
    /\ IF concurrent
       THEN /\ poolq' = Append(poolq, cur[t])
            /\ trace' = Append(trace, Ev("dispatch", cur[t].sn, "none", TRUE))
            /\ pc' = [pc EXCEPT ![t] = "done"]
            /\ res' = res
       ELSE /\ res' = [res EXCEPT ![t] = "result"]
            /\ trace' = trace \o <<Ev("dispatch", cur[t].sn, "none", TRUE),
                                   Ev("exec", cur[t].sn, "result", TRUE)>>
            /\ pc' = [pc EXCEPT ![t] = "reply"]
            /\ poolq' = poolq
    /\ UNCHANGED <<now, fetched, inbox, cur, lock, pending, wk, poolsize>>
    /\ UNCHANGED besidesAgent

\* RequestConsumer.__dispatch: self.sendreply(envelope, result), with the
\* inline result or with the WindowMissed exception.
SendReply(t) ==
    /\ pc[t] = "reply"
    /\ lock = t
    /\ \E ok \in BOOLEAN : trace' = trace \o sendreply(cur[t], res[t], ok)
    /\ pc' = [pc EXCEPT ![t] = "done"]
    /\ res' = [res EXCEPT ![t] = "none"]
    /\ UNCHANGED <<now, fetched, inbox, cur, lock, pending, poolq, wk, poolsize>>
    /\ UNCHANGED besidesAgent

\* Consumer.__received: self.ack(), then received's finally releases the lock.
Ack ==
    /\ pc["rt"] \in {"ack", "done"}
    /\ lock = "rt"
    /\ trace' = Append(trace, Ev("ack", cur["rt"].sn, "none", TRUE))
    /\ lock' = "free"
    /\ pc' = [pc EXCEPT !["rt"] = LoopTest]
    /\ cur' = [cur EXCEPT !["rt"] = NoEnv]
    /\ UNCHANGED <<now, fetched, inbox, res, pending, poolq, wk, poolsize>>
    /\ UNCHANGED besidesAgent

\* ------------------------------------------------------------- replay thread
\* Index of the entry to replay: earliest begin, ties by insertion order.
Earliest ==
    CHOOSE i \in 1..Len(pending) :
        \A j \in 1..Len(pending) :
            \/ pending[i].window.begin < pending[j].window.begin
            \/ (pending[i].window.begin = pending[j].window.begin /\ i <= j)

\* PendingReceiver: the timer thread wakes when the earliest window begins.
Replay ==
    /\ pc["pt"] = "idle"
    /\ pending # <<>>
    /\ ~future(pending[Earliest].window, now)
    /\ cur' = [cur EXCEPT !["pt"] = pending[Earliest]]
    /\ pc' = [pc EXCEPT !["pt"] = "lock"]
    /\ trace' = Append(trace, Ev("replay", pending[Earliest].sn, "none", TRUE))
    /\ UNCHANGED <<now, fetched, inbox, res, lock, pending, poolq, wk, poolsize>>
    /\ UNCHANGED besidesAgent

\* RequestConsumer.dispatch called by the replay thread: take the lock.
ReplayDispatch ==
    /\ pc["pt"] = "lock"
    /\ lock = "free"
    /\ lock' = "pt"
    /\ pc' = [pc EXCEPT !["pt"] = "checkwindow"]
    /\ UNCHANGED <<now, fetched, inbox, cur, res, pending, poolq, wk, poolsize, trace>>
    /\ UNCHANGED besidesAgent

\* RequestConsumer.dispatch returned to the replay thread (lock released);
\* the entry is removed from the store.
Commit ==
    /\ pc["pt"] = "done"
    /\ lock = "pt"
    /\ lock' = "free"
    /\ pending' = SelectSeq(pending, LAMBDA e : e.sn # cur["pt"].sn)
    /\ pc' = [pc EXCEPT !["pt"] = "idle"]
    /\ cur' = [cur EXCEPT !["pt"] = NoEnv]
    /\ UNCHANGED <<now, fetched, inbox, res, poolq, wk, poolsize, trace>>
    /\ UNCHANGED besidesAgent

\* ------------------------------------------------------------- thread pool
\* A worker takes the next request (FIFO) and executes it.
WorkerRun(w) ==
    /\ wk[w].st = "idle"
    /\ poolq # <<>>
    /\ wk' = [wk EXCEPT ![w] = [st |-> "done", env |-> Head(poolq), res |-> "result"]]
    /\ trace' = Append(trace, Ev("exec", Head(poolq).sn, "result", TRUE))
    /\ poolq' = Tail(poolq)
    /\ UNCHANGED <<now, fetched, inbox, pc, cur, res, lock, pending, poolsize>>
    /\ UNCHANGED besidesAgent

\* Mutant: __send does not take the endpoint lock.
WorkerReply_nolock(w) ==
    /\ wk[w].st = "done"
    /\ \E ok \in BOOLEAN : trace' = trace \o sendreply(wk[w].env, wk[w].res, ok)
    /\ wk' = [wk EXCEPT ![w] = IdleWorker]
    /\ UNCHANGED <<now, fetched, inbox, pc, cur, res, lock, pending, poolq, poolsize>>
    /\ UNCHANGED besidesAgent

\* The worker calls the completion callback, RequestConsumer.sendreply;
\* its __send takes the endpoint lock for the duration of the send.
WorkerReply(w) ==
    /\ wk[w].st = "done"
    /\ wk[w].env.replyto => lock = "free"
    /\ \E ok \in BOOLEAN : trace' = trace \o sendreply(wk[w].env, wk[w].res, ok)
    /\ wk' = [wk EXCEPT ![w] = IdleWorker]
    /\ UNCHANGED <<now, fetched, inbox, pc, cur, res, lock, pending, poolq, poolsize>>
    /\ UNCHANGED besidesAgent

\* ------------------------------------------------------------- time
Tick ==
    /\ now < MaxTime
    /\ now' = now + 1
    /\ UNCHANGED <<fetched, inbox, pc, cur, res, lock, pending, poolq, wk, poolsize, trace>>
    /\ UNCHANGED besidesAgent

\* ------------------------------------------------------------- client side bounds
TicksPerSecond == 2     \* resolution of the client clock
MaxStart == 1           \* largest timeout.start, in seconds
MaxDuration == 2        \* largest timeout.duration, in seconds
MaxProgress == 2        \* progress reports the agent emits for one call
MaxForeign == 1         \* envelopes of other calls that reach the reply queue

\* ------------------------------------------------------------- client side data
\* Python's None where a number is expected (a timeout that is not set).
None == -1

\* The serial number producer.send returned for the call.
MySn == 1

NoReply == [sn |-> 0, status |-> "none", succeeded |-> FALSE, n |-> 0]

ReplyEnv(sn, status, succeeded, n) ==
    [sn |-> sn, status |-> status, succeeded |-> succeeded, n |-> n]

Seconds(n) == n * TicksPerSecond

\* int(timeout): the float, held in ticks, truncated to whole seconds.
int(t) == t \div TicksPerSecond

\* Synchronous.__on_reply: return reply.retval when Return(envelope.result)
\* succeeded, else raise RemoteException.instance(reply).  An envelope that
\* carries no result (status started or progress) has not succeeded, so the
\* raise statement is what it reaches.
on_reply(envelope) ==
    IF envelope.status = "reply" /\ envelope.succeeded
    THEN "retval"
    ELSE "RemoteException"

\* Reader.search's test of a fetched envelope: sn == envelope.sn.
search_match_any(sn, envelope) == TRUE

search_match(sn, envelope) == sn = envelope.sn

\* A reader as constructed: Endpoint.open not called, __opened False.
NoReader == [endpoint |-> "none", opened |-> FALSE]

\* Where Reader.__fetch can raise something other than Empty: in
\* Endpoint.open or self.session() (nothing was opened), in
\* ssn.receiver(addr) (after Endpoint.open returned), or in receiver.fetch.
FetchFailures == {"open", "receiver", "fetch"}

\* Reader.open: Endpoint.open(self); then, unless __opened, the receiver is
\* created and __opened set.
Reader_open(r, fail) ==
    IF fail = "open" THEN r
    ELSE IF r.opened \/ fail = "receiver" THEN [r EXCEPT !.endpoint = "open"]
    ELSE [endpoint |-> "open", opened |-> TRUE]

\* Reader.close: returns at once unless __opened; else the receiver is
\* closed, __opened cleared and Endpoint.close(self) called.
Reader_close(r) ==
    IF ~r.opened THEN r ELSE [endpoint |-> "closed", opened |-> FALSE]

\* A search begins: the time it takes is counted from here (in __get_reply
\* by the Timer), and every fetch of it gets the timeout it was called with.
BeginSearch(t) ==
    /\ ftimeout' = t
    /\ fwait' = 0
    /\ swait' = 0

\* ------------------------------------------------------------- specification
\* The agent as constructed, before start.
AgentIdle ==
    /\ now = 1
    /\ fetched = 0
    /\ inbox = <<>>
    /\ pc = [t \in {"rt", "pt"} |-> IF t = "rt" THEN "fetch" ELSE "idle"]
    /\ cur = [t \in {"rt", "pt"} |-> NoEnv]
    /\ res = [t \in {"rt", "pt"} |-> "none"]
    /\ lock = "free"
    /\ pending = <<>>
    /\ poolq = <<>>
    /\ poolsize = 1
    /\ wk = [w \in 1..poolsize |-> IdleWorker]
    /\ trace = <<>>

\* No synchronous call is under way.
ClientIdle ==
    /\ rq = <<>>
    /\ emitted = "none"
    /\ nprogress = 0
    /\ nforeign = 0
    /\ spc = "end"
    /\ timeout = [start |-> 0, duration |-> 0]
    /\ progress = "none"
    /\ remaining = 0
    /\ ftimeout = 0
    /\ fwait = 0
    /\ swait = 0
    /\ found = NoReply
    /\ read = <<>>
    /\ called = <<>>
    /\ waited = 0
    /\ outcome = "none"
    /\ acked = <<>>
    /\ producer = "none"
    /\ reader = NoReader

\* No Asynchronous policy has been used.
AsyncIdle ==
    /\ ctag = ""
    /\ atimeout = [start |-> None, duration |-> None]
    /\ atrigger = 0
    /\ watchdog = ""
    /\ nextsn = 1
    /\ triggers = <<>>
    /\ alog = <<>>
    /\ returned = <<>>
    /\ tpc = <<>>

\* The plugin is attached and its consumer is serving.
PluginServing ==
    /\ run = TRUE
    /\ started = TRUE
    /\ attached = TRUE
    /\ managed = TRUE
    /\ not_managed = FALSE
    /\ queue = "declared"
    /\ dpc = "idle"
    /\ ndetach = 0
    /\ addr = [uuid |-> TRUE, url |-> TRUE]
    /\ attaching = FALSE
    /\ nattach = 0
    /\ receiver = "open"

\* PluginLoader.load has not been called: nothing is registered.
LoaderIdle ==
    /\ descriptors = <<>>
    /\ lidx = 1
    /\ plugins = <<>>
    /\ dispatcher = <<>>
    /\ loaded = <<>>
    /\ Remote = {}
    /\ Actions = {}
    /\ initializer = <<>>
    /\ actions = <<>>
    /\ initialized = <<>>

\* No consumer whose start() and stop() are followed.
LifeIdle ==
    /\ life = <<>>
    /\ llog = <<>>

\* The transport factory before any URL is bound.
TransportIdle ==
    /\ packages = <<>>
    /\ tlog = <<>>
    /\ tt = <<>>

Init ==
    /\ now = 1
    /\ fetched = 0
    /\ inbox = <<>>
    /\ pc = [t \in {"rt", "pt"} |-> IF t = "rt" THEN "fetch" ELSE "idle"]
    /\ cur = [t \in {"rt", "pt"} |-> NoEnv]
    /\ res = [t \in {"rt", "pt"} |-> "none"]
    /\ lock = "free"
    /\ pending = <<>>
    /\ poolq = <<>>
    /\ poolsize \in {1, 2}
    /\ wk = [w \in 1..poolsize |-> IdleWorker]
    /\ trace = <<>>
    /\ ClientIdle
    /\ AsyncIdle
    /\ PluginServing
    /\ LoaderIdle
    /\ LifeIdle
    /\ TransportIdle

Next ==
    \/ Fetch
    \/ Received
    \/ \E t \in {"rt", "pt"} : CheckWindow(t)
    \/ \E t \in {"rt", "pt"} : SendStarted(t)
    \/ \E t \in {"rt", "pt"} : Dispatch(t)
    \/ \E t \in {"rt", "pt"} : SendReply(t)
    \/ Ack
    \/ Replay
    \/ ReplayDispatch
    \/ Commit
    \/ \E w \in 1..poolsize : WorkerRun(w)
    \/ \E w \in 1..poolsize : WorkerReply(w)
    \/ Tick

Spec == Init /\ [][Next]_vars

\* ------------------------------------------------------------- the agent, as seen from the reply queue
\* The agent's 'started' reply arrives (it is the first thing the agent
\* sends, and is missing when its send failed).
DeliverStarted ==
    /\ spc \notin {"send", "end"}
    /\ emitted = "none"
    /\ emitted' = "started"
    /\ rq' = Append(rq, ReplyEnv(MySn, "started", FALSE, 0))
    /\ UNCHANGED <<nprogress, nforeign, spc, timeout, progress, remaining, ftimeout,
                   fwait, swait, found, read, called, waited, outcome>>
    /\ UNCHANGED acked
    /\ UNCHANGED <<producer, reader>>
    /\ UNCHANGED besidesClient

\* A progress report of the running request arrives.
DeliverProgress ==
    /\ spc \notin {"send", "end"}
    /\ emitted \in {"none", "started", "progress"}
    /\ nprogress < MaxProgress
    /\ emitted' = "progress"
    /\ nprogress' = nprogress + 1
    /\ rq' = Append(rq, ReplyEnv(MySn, "progress", FALSE, nprogress + 1))
    /\ UNCHANGED <<nforeign, spc, timeout, progress, remaining, ftimeout,
                   fwait, swait, found, read, called, waited, outcome>>
    /\ UNCHANGED acked
    /\ UNCHANGED <<producer, reader>>
    /\ UNCHANGED besidesClient

\* The terminal reply arrives: a return value or an exception.
DeliverReply ==
    /\ spc \notin {"send", "end"}
    /\ emitted # "reply"
    /\ emitted' = "reply"
    /\ \E succeeded \in BOOLEAN :
        rq' = Append(rq, ReplyEnv(MySn, "reply", succeeded, 0))
    /\ UNCHANGED <<nprogress, nforeign, spc, timeout, progress, remaining, ftimeout,
                   fwait, swait, found, read, called, waited, outcome>>
    /\ UNCHANGED acked
    /\ UNCHANGED <<producer, reader>>
    /\ UNCHANGED besidesClient

\* A late reply of an earlier call on the same reply queue arrives.
DeliverForeign ==
    /\ spc # "end"
    /\ nforeign < MaxForeign
    /\ nforeign' = nforeign + 1
    /\ rq' = Append(rq, ReplyEnv(MySn + 1, "reply", TRUE, 0))
    /\ UNCHANGED <<emitted, nprogress, spc, timeout, progress, remaining, ftimeout,
                   fwait, swait, found, read, called, waited, outcome>>
    /\ UNCHANGED acked
    /\ UNCHANGED <<producer, reader>>
    /\ UNCHANGED besidesClient

\* Time passes while the caller is blocked in a fetch.  The fetch returns as
\* soon as a message is there or its timeout is over, so it does not block
\* past either.
ClientTick ==
    /\ spc \in {"A", "B"}
    /\ rq = <<>>
    /\ fwait < ftimeout
    /\ fwait' = fwait + 1
    /\ swait' = swait + 1
    /\ reader' = Reader_open(reader, "none")
    /\ UNCHANGED <<rq, emitted, nprogress, nforeign, spc, timeout, progress, remaining,
                   ftimeout, found, read, called, waited, outcome>>
    /\ UNCHANGED acked
    /\ UNCHANGED producer
    /\ UNCHANGED besidesClient

\* ------------------------------------------------------------- Synchronous.send
\* Synchronous.send: producer.send, then the reader is created and
\* __get_started begins its search with timeout[0].
SyncSend ==
    /\ spc = "send"
    /\ \E ok \in BOOLEAN :
        IF ok
        THEN /\ spc' = "A"
             /\ BeginSearch(Seconds(timeout.start))
             /\ outcome' = outcome
        ELSE /\ spc' = "end"
             /\ outcome' = "SendError"
             /\ UNCHANGED <<ftimeout, fwait, swait>>
    /\ producer' = "closed"
    /\ reader' = NoReader
    /\ UNCHANGED <<rq, emitted, nprogress, nforeign, timeout, progress, remaining,
                   found, read, called, waited>>
    /\ UNCHANGED acked
    /\ UNCHANGED besidesClient

\* Reader.search: one turn of its loop.  next(timeout) fetches with the
\* timeout search was given; an envelope with another sn is acknowledged and
\* the loop fetches again; a matching one is returned; no message within the
\* timeout ends the search with nothing.
ReaderSearch ==
    /\ spc \in {"A", "B"}
    /\ IF rq # <<>>
       THEN /\ rq' = Tail(rq)
            /\ IF search_match(MySn, Head(rq))
               THEN /\ found' = Head(rq)
                    /\ read' = Append(read, [phase |-> spc, env |-> Head(rq), after |-> swait])
                    /\ spc' = IF spc = "A" THEN "A_done" ELSE "B_done"
                    /\ fwait' = fwait
                    /\ acked' = acked
               ELSE /\ fwait' = 0
                    /\ acked' = Append(acked, Head(rq))
                    /\ UNCHANGED <<found, read, spc>>
       ELSE /\ fwait >= ftimeout
            /\ found' = NoReply
            /\ spc' = IF spc = "A" THEN "A_done" ELSE "B_done"
            /\ UNCHANGED <<rq, read, fwait, acked>>
    /\ reader' = Reader_open(reader, "none")
    /\ producer' = producer
    /\ UNCHANGED <<emitted, nprogress, nforeign, timeout, progress, remaining,
                   ftimeout, swait, called, waited, outcome>>
    /\ UNCHANGED besidesClient

\* Reader.__fetch: the fetch raised something other than Empty; it is
\* logged, next returns nothing and so does search.
FetchFails ==
    /\ spc \in {"A", "B"}
    /\ found' = NoReply
    /\ spc' = IF spc = "A" THEN "A_done" ELSE "B_done"
    /\ \E fail \in FetchFailures : reader' = Reader_open(reader, fail)
    /\ UNCHANGED <<rq, emitted, nprogress, nforeign, timeout, progress, remaining,
                   ftimeout, fwait, swait, read, called, waited, outcome>>
    /\ UNCHANGED acked
    /\ UNCHANGED producer
    /\ UNCHANGED besidesClient

\* Synchronous.__get_started after its search, and the first statements of
\* __get_reply when send goes on: the timer is started and the search is
\* called with int(timeout).
GetStarted ==
    /\ spc = "A_done"
    /\ IF found = NoReply
       THEN /\ outcome' = "RequestTimeout0"
            /\ spc' = "end"
            /\ UNCHANGED <<remaining, ftimeout, fwait, swait>>
       ELSE IF found.status # "started" /\ on_reply(found) = "RemoteException"
       THEN /\ outcome' = "RemoteException"
            /\ spc' = "end"
            /\ UNCHANGED <<remaining, ftimeout, fwait, swait>>
       ELSE /\ outcome' = outcome
            /\ spc' = "B"
            /\ remaining' = Seconds(timeout.duration)
            /\ BeginSearch(Seconds(int(Seconds(timeout.duration))))
    /\ reader' = IF spc' = "end" THEN Reader_close(reader) ELSE reader
    /\ UNCHANGED <<rq, emitted, nprogress, nforeign, timeout, progress,
                   found, read, called, waited>>
    /\ UNCHANGED acked
    /\ UNCHANGED producer
    /\ UNCHANGED besidesClient

\* Synchronous.__get_reply after a search: the timer is stopped, the elapsed
\* time is compared with the timeout and subtracted from it, then the
\* envelope is looked at.
GetReply ==
    /\ spc = "B_done"
    /\ LET elapsed == swait IN
        /\ waited' = waited + elapsed
        /\ IF elapsed > remaining
           THEN /\ outcome' = "RequestTimeout1"
                /\ spc' = "end"
                /\ remaining' = remaining
           ELSE /\ remaining' = remaining - elapsed
                /\ IF found = NoReply
                   THEN outcome' = "RequestTimeout1" /\ spc' = "end"
                   ELSE IF found.status = "progress"
                   THEN outcome' = outcome /\ spc' = "progress"
                   ELSE outcome' = on_reply(found) /\ spc' = "end"
    /\ swait' = 0
    /\ fwait' = 0
    /\ reader' = IF spc' = "end" THEN Reader_close(reader) ELSE reader
    /\ UNCHANGED <<rq, emitted, nprogress, nforeign, timeout, progress,
                   ftimeout, found, read, called>>
    /\ UNCHANGED acked
    /\ UNCHANGED producer
    /\ UNCHANGED besidesClient

\* Synchronous.__on_progress, then the next turn of __get_reply's loop.  A
\* callback that raises is logged.
OnProgress ==
    /\ spc = "progress"
    /\ called' = IF progress \in {"ok", "raises"} THEN Append(called, found.n) ELSE called
    /\ spc' = "B"
    /\ BeginSearch(Seconds(int(remaining)))
    /\ UNCHANGED <<rq, emitted, nprogress, nforeign, timeout, progress, remaining,
                   found, read, waited, outcome>>
    /\ UNCHANGED acked
    /\ UNCHANGED <<producer, reader>>
    /\ UNCHANGED besidesClient

\* A Synchronous policy with its options, about to send.
SyncInit ==
    /\ AgentIdle
    /\ AsyncIdle
    /\ PluginServing
    /\ LoaderIdle
    /\ LifeIdle
    /\ TransportIdle
    /\ rq = <<>>
    /\ emitted = "none"
    /\ nprogress = 0
    /\ nforeign = 0
    /\ spc = "send"
    /\ timeout \in [start : 0..MaxStart, duration : 1..MaxDuration]
    /\ progress \in {"none", "ok", "raises"}
    /\ remaining = 0
    /\ ftimeout = 0
    /\ fwait = 0
    /\ swait = 0
    /\ found = NoReply
    /\ read = <<>>
    /\ called = <<>>
    /\ waited = 0
    /\ outcome = "none"
    /\ acked = <<>>
    /\ producer = "none"
    /\ reader = NoReader

SyncNext ==
    \/ SyncSend
    \/ ReaderSearch
    \/ FetchFails
    \/ GetStarted
    \/ GetReply
    \/ OnProgress
    \/ DeliverStarted
    \/ DeliverProgress
    \/ DeliverReply
    \/ DeliverForeign
    \/ ClientTick

SyncSpec == SyncInit /\ [][SyncNext]_vars

\* ------------------------------------------------------------- Asynchronous policy bounds
MaxCalls == 3       \* calls of send, of broadcast and of triggers
MaxDests == 2       \* longest list of destinations given to broadcast
MaxTimeout == 1     \* the timeout value of a policy that has one, in seconds

\* ------------------------------------------------------------- Asynchronous policy data
Destinations == {"d1", "d2"}

DestLists == UNION {[1..n -> Destinations] : n \in 0..MaxDests}

NoDestination == [has |-> FALSE, queue |-> ""]

\* Where the firing of a trigger can raise: nowhere, in producer.send (the
\* message did not leave), in producer.close() after the message left, or in
\* watchdog.track after the message left.
Failures == {"none", "send", "close", "track"}

\* Trigger.__init__: pending, with the sn getuuid() returned.
Trigger(sn, destination) == [sn |-> sn, pending |-> TRUE, destination |-> destination]

\* Asynchronous.send / broadcast: if self.trigger == 1.
manual_never(trigger) == FALSE

manual(trigger) == trigger = 1

\* Asynchronous.replyto: the destination of the queue named by ctag, or None.
replyto_always == [has |-> TRUE, queue |-> ctag]

replyto ==
    IF ctag # ""
    THEN [has |-> TRUE, queue |-> ctag]
    ELSE NoDestination

\* Asynchronous.notifywatchdog: the condition under which watchdog.track is
\* called.
tracked(rt) ==
    /\ rt.has
    /\ ctag # ""
    /\ atimeout.start # None
    /\ atimeout.duration # None
    /\ watchdog # ""

\* One entry of alog: producer.send (ttl is timeout[0]) or watchdog.track
\* (given the timeout pair); ok is FALSE when the call raised.
AEv(e, call, t, rt, ok) ==
    [ev |-> e, call |-> call, sn |-> t.sn, destination |-> t.destination,
     replyto |-> rt, timeout |-> atimeout, ok |-> ok]

\* Trigger.__send: producer.send inside try/finally producer.close(), then
\* policy.notifywatchdog.  The calls it made, in order.
Trigger_send(call, t, fail) ==
    LET rt == replyto IN
    IF fail = "send" THEN <<AEv("send", call, t, rt, FALSE)>>
    ELSE IF fail = "close" THEN <<AEv("send", call, t, rt, TRUE)>>
    ELSE <<AEv("send", call, t, rt, TRUE)>> \o
         (IF tracked(rt) THEN <<AEv("track", call, t, rt, fail # "track")>> ELSE <<>>)

\* A failure that can happen with the policy's options: watchdog.track only
\* raises when it is called.
CanFail(fail) == fail = "track" => tracked(replyto)

\* Trigger.__call__: a pending trigger sends and is then no longer pending
\* (the flag is cleared after __send returned, so not when it raised); one
\* that is not pending raises.
Trigger_call_clears_first(call, t, fail) ==
    IF t.pending
    THEN [trigger |-> [t EXCEPT !.pending = FALSE],
          events |-> Trigger_send(call, t, fail),
          raised |-> fail]
    ELSE [trigger |-> t,
          events |-> <<>>,
          raised |-> "trigger already executed"]

Trigger_call(call, t, fail) ==
    IF t.pending
    THEN [trigger |-> [t EXCEPT !.pending = (fail # "none")],
          events |-> Trigger_send(call, t, fail),
          raised |-> fail]
    ELSE [trigger |-> t,
          events |-> <<>>,
          raised |-> "trigger already executed"]

\* Asynchronous.broadcast: one Trigger per destination, in list order.
build_same(dests, sn) == [i \in 1..Len(dests) |-> Trigger(sn, dests[i])]

build(dests, sn) == [i \in 1..Len(dests) |-> Trigger(sn + i - 1, dests[i])]

\* for trigger in triggers: trigger() -- the loop ends at the first call that
\* raises (the failAt-th; 0 when none does).
FailOf(i, failAt, fail) == IF i = failAt THEN fail ELSE "none"

RECURSIVE FireEach(_, _, _, _, _)
FireEach(call, ts, i, failAt, fail) ==
    IF i > Len(ts) \/ (failAt # 0 /\ i > failAt)
    THEN <<>>
    ELSE Trigger_call(call, ts[i], FailOf(i, failAt, fail)).events
         \o FireEach(call, ts, i + 1, failAt, fail)

Fired(call, ts, failAt, fail) ==
    [i \in 1..Len(ts) |->
        IF failAt # 0 /\ i > failAt
        THEN ts[i]
        ELSE Trigger_call(call, ts[i], FailOf(i, failAt, fail)).trigger]

\* One call and how it ended: the destinations it was given, what it raised
\* ("none" when it returned), the triggers it constructed, the triggers it
\* returned or was made on (both by position in `triggers`), the sns it
\* returned.
Ret(op, args, raised, built, trigs, sns) ==
    [op |-> op, args |-> args, raised |-> raised, built |-> built,
     trigs |-> trigs, sns |-> sns]

\* The triggers the caller holds: those a manual send or broadcast returned.
Held == {i \in 1..Len(triggers) :
            \E c \in 1..Len(returned) :
                /\ returned[c].op \in {"send", "broadcast"}
                /\ \E j \in 1..Len(returned[c].trigs) : returned[c].trigs[j] = i}

\* ------------------------------------------------------------- Asynchronous policy
\* Asynchronous.send
AsyncSend ==
    /\ Len(returned) < MaxCalls
    /\ \E destination \in Destinations, fail \in Failures :
        LET call == Len(returned) + 1
            t == Trigger(nextsn, destination)
            r == Trigger_call(call, t, fail)
        IN  /\ CanFail(fail)
            /\ nextsn' = nextsn + 1
            /\ IF manual(atrigger)
               THEN /\ fail = "none"
                    /\ triggers' = Append(triggers, t)
                    /\ alog' = alog
                    /\ returned' = Append(returned,
                            Ret("send", <<destination>>, "none", <<Len(triggers) + 1>>,
                                <<Len(triggers) + 1>>, <<>>))
               ELSE /\ triggers' = Append(triggers, r.trigger)
                    /\ alog' = alog \o r.events
                    /\ returned' = Append(returned,
                            Ret("send", <<destination>>, r.raised, <<Len(triggers) + 1>>, <<>>,
                                IF r.raised = "none" THEN <<r.trigger.sn>> ELSE <<>>))
    /\ UNCHANGED <<ctag, atimeout, atrigger, watchdog, tpc>>
    /\ UNCHANGED besidesAsync

\* Asynchronous.broadcast
AsyncBroadcast ==
    /\ Len(returned) < MaxCalls
    /\ \E dests \in DestLists, failAt \in 0..MaxDests, fail \in Failures :
        LET call == Len(returned) + 1
            n == Len(dests)
            ts == build(dests, nextsn)
        IN  /\ failAt <= n
            /\ (failAt = 0) = (fail = "none")
            /\ CanFail(fail)
            /\ nextsn' = nextsn + n
            /\ IF manual(atrigger)
               THEN /\ fail = "none"
                    /\ triggers' = triggers \o ts
                    /\ alog' = alog
                    /\ returned' = Append(returned,
                            Ret("broadcast", dests, "none",
                                [i \in 1..n |-> Len(triggers) + i],
                                [i \in 1..n |-> Len(triggers) + i], <<>>))
               ELSE /\ triggers' = triggers \o Fired(call, ts, failAt, fail)
                    /\ alog' = alog \o FireEach(call, ts, 1, failAt, fail)
                    /\ returned' = Append(returned,
                            Ret("broadcast", dests, fail,
                                [i \in 1..n |-> Len(triggers) + i], <<>>,
                                IF fail = "none" THEN [i \in 1..n |-> ts[i].sn] ELSE <<>>))
    /\ UNCHANGED <<ctag, atimeout, atrigger, watchdog, tpc>>
    /\ UNCHANGED besidesAsync

\* The caller fires a trigger it holds: Trigger.__call__
TriggerCall ==
    /\ Len(returned) < MaxCalls
    /\ \E i \in Held, fail \in Failures :
        LET call == Len(returned) + 1
            r == Trigger_call(call, triggers[i], fail)
        IN  /\ CanFail(fail)
            /\ ~triggers[i].pending => fail = "none"
            /\ triggers' = [triggers EXCEPT ![i] = r.trigger]
            /\ alog' = alog \o r.events
            /\ returned' = Append(returned, Ret("call", <<>>, r.raised, <<>>, <<i>>, <<>>))
    /\ UNCHANGED <<ctag, atimeout, atrigger, watchdog, nextsn, tpc>>
    /\ UNCHANGED besidesAsync

\* An Asynchronous policy with its options, not yet used.
AsyncInit ==
    /\ AgentIdle
    /\ ClientIdle
    /\ PluginServing
    /\ LoaderIdle
    /\ LifeIdle
    /\ TransportIdle
    /\ ctag \in {"", "ctag"}
    /\ atimeout \in [start : {None, MaxTimeout}, duration : {None, MaxTimeout}]
    /\ atrigger \in {0, 1}
    /\ watchdog \in {"", "watchdog"}
    /\ nextsn = 1
    /\ triggers = <<>>
    /\ alog = <<>>
    /\ returned = <<>>
    /\ tpc = <<>>

AsyncNext ==
    \/ AsyncSend
    \/ AsyncBroadcast
    \/ TriggerCall

AsyncSpec == AsyncInit /\ [][AsyncNext]_vars

\* ------------------------------------------------------------- concurrent trigger bounds
MaxCallers == 2     \* threads calling the same trigger

\* ------------------------------------------------------------- concurrent trigger
\* Trigger.__call__ takes no lock; a thread calling it can be interrupted
\* between any two of its statements: the test of __pending, producer.send
\* with producer.close(), policy.notifywatchdog, the assignment of __pending.
Callers == 1..MaxCallers

\* The trigger the threads share.
Shared == 1

\* if self.__pending: ... else: raise Exception('trigger already executed')
CallTest(t) ==
    /\ tpc[t] = "call"
    /\ tpc' = [tpc EXCEPT ![t] = IF triggers[Shared].pending THEN "send" ELSE "already executed"]
    /\ UNCHANGED <<ctag, atimeout, atrigger, watchdog, nextsn, triggers, alog, returned>>
    /\ UNCHANGED besidesAsync

\* Trigger.__send: producer.send(...), finally producer.close()
CallSend(t) ==
    /\ tpc[t] = "send"
    /\ \E fail \in {"none", "send", "close"} :
        /\ alog' = Append(alog, AEv("send", t, triggers[Shared], replyto, fail # "send"))
        /\ tpc' = [tpc EXCEPT ![t] = IF fail = "none" THEN "notify" ELSE "raised"]
    /\ UNCHANGED <<ctag, atimeout, atrigger, watchdog, nextsn, triggers, returned>>
    /\ UNCHANGED besidesAsync

\* Trigger.__send: policy.notifywatchdog(self.__sn, replyto, any)
CallNotify(t) ==
    /\ tpc[t] = "notify"
    /\ IF tracked(replyto)
       THEN \E ok \in BOOLEAN :
            /\ alog' = Append(alog, AEv("track", t, triggers[Shared], replyto, ok))
            /\ tpc' = [tpc EXCEPT ![t] = IF ok THEN "clear" ELSE "raised"]
       ELSE /\ alog' = alog
            /\ tpc' = [tpc EXCEPT ![t] = "clear"]
    /\ UNCHANGED <<ctag, atimeout, atrigger, watchdog, nextsn, triggers, returned>>
    /\ UNCHANGED besidesAsync

\* self.__pending = False
CallClear(t) ==
    /\ tpc[t] = "clear"
    /\ triggers' = [triggers EXCEPT ![Shared].pending = FALSE]
    /\ tpc' = [tpc EXCEPT ![t] = "returned"]
    /\ UNCHANGED <<ctag, atimeout, atrigger, watchdog, nextsn, alog, returned>>
    /\ UNCHANGED besidesAsync

\* A trigger that send returned (trigger == 1), about to be called by each
\* of the threads.
CallersInit ==
    /\ AgentIdle
    /\ ClientIdle
    /\ PluginServing
    /\ LoaderIdle
    /\ LifeIdle
    /\ TransportIdle
    /\ ctag \in {"", "ctag"}
    /\ atimeout \in [start : {None, MaxTimeout}, duration : {None, MaxTimeout}]
    /\ atrigger = 1
    /\ watchdog \in {"", "watchdog"}
    /\ nextsn = 2
    /\ triggers = <<Trigger(1, "d1")>>
    /\ alog = <<>>
    /\ returned = <<Ret("send", <<"d1">>, "none", <<Shared>>, <<Shared>>, <<>>)>>
    /\ tpc = [t \in Callers |-> "call"]

CallersNext ==
    \E t \in Callers :
        \/ CallTest(t)
        \/ CallSend(t)
        \/ CallNotify(t)
        \/ CallClear(t)

CallersSpec == CallersInit /\ [][CallersNext]_vars

\* ------------------------------------------------------------- plugin bounds
MaxDetach == 2      \* calls of Plugin.detach
MaxAttach == 2      \* calls of Plugin.attach
MaxRaises == 1      \* exceptions raised in the receive thread's loop

\* ------------------------------------------------------------- plugin
\* Plugin.refresh: a queue that is not managed is entered in
\* Domain.node.not_managed (and stays there).
refresh_skip(nm, mg) == nm

refresh(nm, mg) == nm \/ ~mg

\* Queue.delete(url, drain=True): the queue is drained and deleted on the
\* broker, unless its name is in Domain.node.not_managed.
queue_delete(q, nm) == IF nm THEN q ELSE "deleted"

\* Plugin.attach is called: self.detach() comes first.
AttachCall_no_detach ==
    /\ dpc = "idle"
    /\ nattach < MaxAttach
    /\ nattach' = nattach + 1
    /\ attaching' = TRUE
    /\ dpc' = "attach"
    /\ trace' = Append(trace, Ev("attach", 0, IF attached THEN "consumer" ELSE "none", TRUE))
    /\ UNCHANGED <<now, fetched, inbox, pc, cur, res, lock, pending, poolq, wk, poolsize>>
    /\ UNCHANGED <<run, started, attached, managed, not_managed, queue, ndetach, addr, receiver>>
    /\ UNCHANGED besidesPlugin

AttachCall ==
    /\ dpc = "idle"
    /\ nattach < MaxAttach
    /\ nattach' = nattach + 1
    /\ attaching' = TRUE
    /\ dpc' = IF attached THEN "stop" ELSE "attach"
    /\ trace' = Append(trace, Ev("attach", 0, IF attached THEN "consumer" ELSE "none", TRUE))
    /\ UNCHANGED <<now, fetched, inbox, pc, cur, res, lock, pending, poolq, wk, poolsize>>
    /\ UNCHANGED <<run, started, attached, managed, not_managed, queue, ndetach, addr, receiver>>
    /\ UNCHANGED besidesPlugin

\* Where Plugin.attach can raise after its detach: nowhere, or in
\* queue.declare (the broker cannot be reached).
AttachFailures == {"none", "declare"}

\* Mutant: the consumer is started before the queue is declared and the
\* authenticator installed.
attach_steps_start_first ==
    <<Ev("refresh", 0, "none", TRUE), Ev("consumer", 0, "none", TRUE),
      Ev("start", 0, "none", TRUE), Ev("declare", 0, "none", TRUE),
      Ev("authenticator", 0, "none", TRUE)>>

\* Plugin.attach after its detach, with uuid and url set: the calls it
\* makes, in order.
attach_steps ==
    <<Ev("refresh", 0, "none", TRUE), Ev("declare", 0, "none", TRUE),
      Ev("consumer", 0, "none", TRUE), Ev("authenticator", 0, "none", TRUE),
      Ev("start", 0, "none", TRUE)>>

\* What the start of a new consumer leaves behind: when the receive thread
\* of an earlier consumer is still running, that thread goes on without
\* self.consumer referring to it.
Orphaned ==
    IF pc["rt"] # "stopped" THEN <<Ev("orphaned", 0, "none", TRUE)>> ELSE <<>>

\* Plugin.attach after its detach: with uuid and url set it refreshes,
\* declares the queue, creates the consumer, installs the authenticator,
\* starts the consumer and sets self.consumer; else it logs an error.
Attach ==
    /\ dpc = "attach"
    /\ dpc' = "idle"
    /\ attaching' = FALSE
    /\ IF addr.uuid /\ addr.url
       THEN \E fail \in AttachFailures :
            IF fail = "none"
            THEN /\ not_managed' = refresh(not_managed, managed)
                 /\ queue' = "declared"
                 /\ run' = TRUE
                 /\ started' = TRUE
                 /\ attached' = TRUE
                 /\ pc' = [pc EXCEPT !["rt"] = "fetch"]
                 /\ receiver' = "open"
                 /\ trace' = trace \o attach_steps \o Orphaned
            ELSE /\ not_managed' = refresh(not_managed, managed)
                 /\ trace' = trace \o <<Ev("refresh", 0, "none", TRUE),
                                        Ev("declare", 0, "none", FALSE)>>
                 /\ UNCHANGED <<queue, run, started, attached, pc, receiver>>
       ELSE /\ trace' = Append(trace, Ev("attach requires uuid and url", 0, "none", TRUE))
            /\ UNCHANGED <<not_managed, queue, run, started, attached, pc, receiver>>
    /\ UNCHANGED <<now, fetched, inbox, cur, res, lock, pending, poolq, wk, poolsize>>
    /\ UNCHANGED <<managed, ndetach, addr, nattach>>
    /\ UNCHANGED besidesPlugin

\* Plugin.detach is called: if not self.consumer: return.
Detach ==
    /\ dpc = "idle"
    /\ ndetach < MaxDetach
    /\ ndetach' = ndetach + 1
    /\ dpc' = IF attached THEN "stop" ELSE "idle"
    /\ trace' = Append(trace, Ev("detach", 0, IF attached THEN "consumer" ELSE "none", TRUE))
    /\ UNCHANGED <<now, fetched, inbox, pc, cur, res, lock, pending, poolq, wk, poolsize>>
    /\ UNCHANGED <<run, started, attached, managed, not_managed, queue>>
    /\ UNCHANGED <<addr, attaching, nattach, receiver>>
    /\ UNCHANGED besidesPlugin

\* consumer.stop(): RequestConsumer.stop takes the endpoint lock, stops and
\* joins the pending receiver, clears __started and calls Consumer.stop,
\* which clears the thread's run flag and begins thread.join(90); the lock
\* is held throughout.
ConsumerStop ==
    /\ dpc = "stop"
    /\ lock = "free"
    /\ IF started
       THEN /\ lock' = "dt"
            /\ started' = FALSE
            /\ run' = FALSE
            /\ dpc' = "stopjoin"
            /\ trace' = trace \o <<Ev("pending.stop", 0, "none", TRUE),
                                   Ev("pending.join", 0, "none", TRUE),
                                   Ev("stop", 0, "none", TRUE)>>
       ELSE /\ dpc' = "join"
            /\ UNCHANGED <<lock, started, run, trace>>
    /\ UNCHANGED <<now, fetched, inbox, pc, cur, res, pending, poolq, wk, poolsize>>
    /\ UNCHANGED <<attached, managed, not_managed, queue, ndetach>>
    /\ UNCHANGED <<addr, attaching, nattach, receiver>>
    /\ UNCHANGED besidesPlugin

\* ReceiverThread.run: the fetch returned nothing and the loop test fails.
ReceiverStops ==
    /\ pc["rt"] = "fetch"
    /\ ~run
    /\ pc' = [pc EXCEPT !["rt"] = "closing"]
    /\ UNCHANGED <<now, fetched, inbox, cur, res, lock, pending, poolq, wk, poolsize, trace>>
    /\ UNCHANGED plugin
    /\ UNCHANGED besidesPlugin

\* ReceiverThread.run after the loop: receiver.close(), and the thread ends.
ReceiverClose ==
    /\ pc["rt"] = "closing"
    /\ pc' = [pc EXCEPT !["rt"] = "stopped"]
    /\ receiver' = "closed"
    /\ UNCHANGED <<now, fetched, inbox, cur, res, lock, pending, poolq, wk, poolsize, trace>>
    /\ UNCHANGED <<run, started, attached, managed, not_managed, queue, dpc, ndetach,
                   addr, attaching, nattach>>
    /\ UNCHANGED besidesPlugin

\* The exceptions the try block of ReceiverThread.run has raised so far.
Raised == {i \in 1..Len(trace) : trace[i].ev = "raised"}

\* ReceiverThread.run: the fetch raises.  A LinkError is logged and run
\* returns; anything else is logged (after __fetch slept) and the loop test
\* follows.
FetchRaises ==
    /\ pc["rt"] = "fetch"
    /\ Cardinality(Raised) < MaxRaises
    /\ \E e \in {"LinkError", "Exception"} :
        /\ trace' = Append(trace, Ev("raised", 0, e, TRUE))
        /\ pc' = [pc EXCEPT !["rt"] = IF e = "LinkError" THEN "stopped" ELSE LoopTest]
    /\ UNCHANGED <<now, fetched, inbox, cur, res, lock, pending, poolq, wk, poolsize>>
    /\ UNCHANGED plugin
    /\ UNCHANGED besidesPlugin

\* Consumer.stop: thread.join(90) returns, because the thread has ended or
\* because 90 seconds have passed while the thread waits in
\* Consumer.received for the lock this caller holds; then both finally
\* clauses release the lock.
StopJoin ==
    /\ dpc = "stopjoin"
    /\ pc["rt"] \in {"stopped", "received"}
    /\ lock' = "free"
    /\ dpc' = "join"
    /\ trace' = Append(trace, Ev("stopped", 0,
                    IF pc["rt"] = "stopped" THEN "joined" ELSE "timeout", TRUE))
    /\ UNCHANGED <<now, fetched, inbox, pc, cur, res, pending, poolq, wk, poolsize>>
    /\ UNCHANGED <<run, started, attached, managed, not_managed, queue, ndetach>>
    /\ UNCHANGED <<addr, attaching, nattach, receiver>>
    /\ UNCHANGED besidesPlugin

\* consumer.join(): thread.join() without a timeout; then self.consumer = None.
Join ==
    /\ dpc = "join"
    /\ pc["rt"] = "stopped"
    /\ attached' = FALSE
    /\ dpc' = "delete"
    /\ trace' = Append(trace, Ev("joined", 0, "none", TRUE))
    /\ UNCHANGED <<now, fetched, inbox, pc, cur, res, lock, pending, poolq, wk, poolsize>>
    /\ UNCHANGED <<run, started, managed, not_managed, queue, ndetach>>
    /\ UNCHANGED <<addr, attaching, nattach, receiver>>
    /\ UNCHANGED besidesPlugin

\* queue.delete(self.url, drain=True); detach returns, to its caller or to
\* the attach that called it.
QueueDelete ==
    /\ dpc = "delete"
    /\ queue' = queue_delete(queue, not_managed)
    /\ dpc' = IF attaching THEN "attach" ELSE "idle"
    /\ trace' = Append(trace, Ev("delete", 0, queue_delete(queue, not_managed), TRUE))
    /\ UNCHANGED <<now, fetched, inbox, pc, cur, res, lock, pending, poolq, wk, poolsize>>
    /\ UNCHANGED <<run, started, attached, managed, not_managed, ndetach>>
    /\ UNCHANGED <<addr, attaching, nattach, receiver>>
    /\ UNCHANGED besidesPlugin

\* The requests sent to the plugin's queue: well-formed, of the supported
\* version, without a window.
Requests_plain == {m \in Messages : m.loads /\ m.version = version /\ ~m.window.has}

\* A plugin as constructed: no consumer, no receive thread; one pool thread
\* (messaging.threads not set), so requests are executed inline.
PluginInit ==
    /\ now = 1
    /\ fetched = 0
    /\ inbox = <<>>
    /\ pc = [t \in {"rt", "pt"} |-> IF t = "rt" THEN "stopped" ELSE "idle"]
    /\ cur = [t \in {"rt", "pt"} |-> NoEnv]
    /\ res = [t \in {"rt", "pt"} |-> "none"]
    /\ lock = "free"
    /\ pending = <<>>
    /\ poolq = <<>>
    /\ poolsize = 1
    /\ wk = [w \in 1..poolsize |-> IdleWorker]
    /\ trace = <<>>
    /\ run = FALSE
    /\ started = FALSE
    /\ attached = FALSE
    /\ managed \in BOOLEAN
    /\ not_managed = FALSE
    /\ queue = "none"
    /\ dpc = "idle"
    /\ ndetach = 0
    /\ addr \in [uuid : BOOLEAN, url : BOOLEAN]
    /\ attaching = FALSE
    /\ nattach = 0
    /\ receiver = "none"
    /\ ClientIdle
    /\ AsyncIdle
    /\ LoaderIdle
    /\ LifeIdle
    /\ TransportIdle

PluginNext ==
    \/ AttachCall
    \/ Attach
    \/ Detach
    \/ ConsumerStop
    \/ ReceiverStops
    \/ ReceiverClose
    \/ StopJoin
    \/ Join
    \/ QueueDelete
    \/ FetchFrom(Requests_plain)
    \/ Received
    \/ CheckWindow("rt")
    \/ SendStarted("rt")
    \/ Dispatch("rt")
    \/ SendReply("rt")
    \/ Ack

PluginSpec == PluginInit /\ [][PluginNext]_vars

\* ------------------------------------------------------------- receive thread with failing fetches
\* Requests that ask for no reply.
Requests_silent == {m \in Requests_plain : ~m.replyto}

\* A plugin with uuid, url and a managed queue, as constructed.
ReceiverInit ==
    /\ PluginInit
    /\ managed
    /\ addr.uuid
    /\ addr.url

ReceiverNext ==
    \/ AttachCall
    \/ Attach
    \/ Detach
    \/ ConsumerStop
    \/ ReceiverStops
    \/ ReceiverClose
    \/ FetchRaises
    \/ StopJoin
    \/ Join
    \/ QueueDelete
    \/ FetchFrom(Requests_silent)
    \/ Received
    \/ CheckWindow("rt")
    \/ SendStarted("rt")
    \/ Dispatch("rt")
    \/ SendReply("rt")
    \/ Ack

ReceiverSpec == ReceiverInit /\ [][ReceiverNext]_vars

\* ------------------------------------------------------------- plugin loader bounds
MaxPlugins == 3     \* descriptors in the list

\* ------------------------------------------------------------- plugin loader data
\* Plugins are named by their position in the sorted list; Missing is a name
\* that no descriptor has.
PluginIds == 1..MaxPlugins

Missing == MaxPlugins + 1

\* gofer.agent.builtin, whose remotes every plugin is given.
Builtin == MaxPlugins + 1

\* Names of dispatcher entries: 0 is a name every plugin uses for a class and
\* for a function, i a name only plugin i uses, Builtin the name of the
\* built-in class.
Entries == 0..Builtin

\* A descriptor: main.enabled, whether main.plugin (a module path) is set,
\* main.extends (0 when not set), and where the import of the module goes
\* wrong: nowhere, in the import itself, or in an initializer.
Descriptor ==
    [enabled : BOOLEAN, path : BOOLEAN, extends : 0..Missing,
     fail : {"none", "import", "init"}]

\* PluginDescriptor.__sort: a plugin comes after the plugin it extends.
Sorted(ds) ==
    \A i \in 1..Len(ds) : ds[i].extends \in ({0, Missing} \cup 1..(i - 1))

NoDispatcher == [cls |-> [k \in Entries |-> 0], fns |-> [k \in Entries |-> 0]]

\* Plugin.add(plugin, *names)
Plugin_add(reg, kind, p) == [reg EXCEPT ![kind][p] = p]

\* Plugin.delete(plugin): every key whose value is the plugin is removed.
Plugin_delete_name(reg, p) == [reg EXCEPT !["name"][p] = 0]

Plugin_delete(reg, p) ==
    [kind \in {"name", "path"} |->
        [n \in PluginIds |-> IF reg[kind][n] = p THEN 0 ELSE reg[kind][n]]]

\* Plugin.find(name): the plugin registered under the name, or None (0).
Plugin_find(reg, n) == IF n \in PluginIds THEN reg["name"][n] ELSE 0

\* Remote.clear(), Actions.clear(), Initializer.clear()
Remote_clear(registry) == {}

Actions_clear(registry) == {}

Initializer_kept(list) == list

Initializer_clear(list) == <<>>

\* The plugin whose definition of the name every plugin uses is the one a
\* registry holds: the last plugin registered.
Latest(registry) ==
    LET ps == registry \cap PluginIds
    IN  IF ps = {} THEN 0 ELSE CHOOSE p \in ps : \A q \in ps : q <= p

\* Remote.collated(): the classes in the registry, and the functions in it.
collated(registry) ==
    [cls |-> [k \in Entries |-> IF k = 0 THEN Latest(registry)
                                ELSE IF k \in registry THEN k ELSE 0],
     fns |-> [k \in Entries |-> IF k = 0 THEN Latest(registry)
                                ELSE IF k \in registry THEN k ELSE 0]]

\* PluginLoader.BUILTINS: Remote.collated() after gofer.agent.builtin was
\* imported.
BUILTINS ==
    [cls |-> [k \in Entries |-> IF k = Builtin THEN Builtin ELSE 0],
     fns |-> [k \in Entries |-> 0]]

\* collated += PluginLoader.BUILTINS
collated_iadd(mine, other) ==
    [cls |-> [k \in Entries |-> IF other.cls[k] # 0 THEN other.cls[k] ELSE mine.cls[k]],
     fns |-> [k \in Entries |-> IF other.fns[k] # 0 THEN other.fns[k] ELSE mine.fns[k]]]

\* Initializer.run(): the functions of the list are called in order, up to
\* the first that raises.
Initializer_run(list) ==
    LET raising == {n \in 1..Len(list) : descriptors[list[n]].fail = "init"}
        last == IF raising = {} THEN Len(list)
                ELSE CHOOSE n \in raising : \A m \in raising : n <= m
    IN  [called |-> [n \in 1..last |-> list[n]], raised |-> raising # {}]

\* What the calls of Initializer.run() during the import of plugin i add to
\* the record of the initializers run.
Ran(record, calls, i) ==
    [p \in PluginIds |->
        IF \E n \in 1..Len(calls) : calls[n] = p
        THEN record[p] \o [n \in 1..Cardinality({m \in 1..Len(calls) : calls[m] = p}) |-> i]
        ELSE record[p]]

\* Plugin.__iadd__(other plugin): each class of the other's dispatcher is
\* entered under its name, each function is added to the module entry named
\* after this plugin.
iadd_classes(mine, other) ==
    [cls |-> [k \in Entries |-> IF other.cls[k] # 0 THEN other.cls[k] ELSE mine.cls[k]],
     fns |-> mine.fns]

iadd(mine, other) ==
    [cls |-> [k \in Entries |-> IF other.cls[k] # 0 THEN other.cls[k] ELSE mine.cls[k]],
     fns |-> [k \in Entries |-> IF other.fns[k] # 0 THEN other.fns[k] ELSE mine.fns[k]]]

\* PluginLoader._import(name, descriptor): the registry and the dispatchers
\* it leaves, and whether it returned the plugin.
\* A module that fails to import fails before any of its decorators ran; one
\* that imports has registered a class and a function under the shared name
\* and under its own, an action, and one initializer.
import(i) ==
    LET d == descriptors[i]
        R0 == Remote_clear(Remote)
        A0 == Actions_clear(Actions)
        I0 == Initializer_clear(initializer)
        r1 == Plugin_add(plugins, "name", i)
        r2 == IF d.path THEN Plugin_add(r1, "path", i) ELSE r1
        R1 == R0 \cup {i}
        A1 == A0 \cup {i}
        I1 == Append(I0, i)
        d1 == [dispatcher EXCEPT ![i] = collated_iadd(collated(R1), BUILTINS)]
        a1 == [actions EXCEPT ![i] = A1]
        extended == Plugin_find(r2, d.extends)
        d2 == IF d.extends # 0
              THEN [d1 EXCEPT ![extended] = iadd(d1[extended], d1[i])]
              ELSE d1
        ran == Initializer_run(I1)
        registered == [Remote |-> R1, Actions |-> A1, initializer |-> I1]
    IN  IF d.fail = "import"
        THEN [plugins |-> Plugin_delete(r1, i), dispatcher |-> dispatcher,
              actions |-> actions, initialized |-> initialized,
              Remote |-> R0, Actions |-> A0, initializer |-> I0, ok |-> FALSE]
        ELSE IF d.extends # 0 /\ extended = 0
        THEN [plugins |-> Plugin_delete(r2, i), dispatcher |-> d1,
              actions |-> a1, initialized |-> initialized, ok |-> FALSE] @@ registered
        ELSE IF ran.raised
        THEN [plugins |-> Plugin_delete(r2, i), dispatcher |-> d2,
              actions |-> a1, initialized |-> Ran(initialized, ran.called, i),
              ok |-> FALSE] @@ registered
        ELSE [plugins |-> r2, dispatcher |-> d2,
              actions |-> a1, initialized |-> Ran(initialized, ran.called, i),
              ok |-> TRUE] @@ registered

\* ------------------------------------------------------------- plugin loader
\* PluginLoader.load: one turn of its loop.
Load ==
    /\ lidx <= Len(descriptors)
    /\ lidx' = lidx + 1
    /\ IF ~descriptors[lidx].enabled
       THEN UNCHANGED <<plugins, dispatcher, loaded,
                        Remote, Actions, initializer, actions, initialized>>
       ELSE LET r == import(lidx) IN
            /\ plugins' = r.plugins
            /\ dispatcher' = r.dispatcher
            /\ Remote' = r.Remote
            /\ Actions' = r.Actions
            /\ initializer' = r.initializer
            /\ actions' = r.actions
            /\ initialized' = r.initialized
            /\ loaded' = IF r.ok THEN Append(loaded, lidx) ELSE loaded
    /\ UNCHANGED descriptors
    /\ UNCHANGED besidesLoader

\* PluginLoader.load is called with nothing registered.
LoaderInit ==
    /\ AgentIdle
    /\ ClientIdle
    /\ AsyncIdle
    /\ PluginServing
    /\ TransportIdle
    /\ LifeIdle
    /\ descriptors \in {ds \in [PluginIds -> Descriptor] : Sorted(ds)}
    /\ lidx = 1
    /\ plugins = [kind \in {"name", "path"} |-> [n \in PluginIds |-> 0]]
    /\ dispatcher = [p \in PluginIds |-> NoDispatcher]
    /\ loaded = <<>>
    /\ Remote = {Builtin}
    /\ Actions = {}
    /\ initializer = <<>>
    /\ actions = [p \in PluginIds |-> {}]
    /\ initialized = [p \in PluginIds |-> <<>>]

LoaderNext == Load

LoaderSpec == LoaderInit /\ [][LoaderNext]_vars

\* ------------------------------------------------------------- transport factory bounds
MaxBinds == 3       \* calls of Transport.bind and Transport(...)

\* ------------------------------------------------------------- transport factory data
DEFAULT_URL == "tcp://localhost:5672"

DEFAULT_TRANSPORT == "gofer.transport.amqplib"

\* The url and package arguments of a call; "" is an argument not given.
UrlArgs == {"", "tcp://localhost:5672", "tcp://host:5672"}

PackageArgs == {"", "amqplib", "qpid", "gofer.transport.qpid", "nowhere"}

Urls == {"tcp://localhost:5672", "tcp://host:5672"}

\* The packages that can be imported.
Installed == {"gofer.transport.amqplib", "gofer.transport.qpid"}

NotBound == "none"

\* if not url: url = DEFAULT_URL
url_of(url) == IF url = "" THEN DEFAULT_URL ELSE url

\* if not package: package = DEFAULT_TRANSPORT;
\* if not '.' in package: package = '.'.join((__package__, package))
package_of(package) ==
    CASE package = "" -> DEFAULT_TRANSPORT
      [] package = "amqplib" -> "gofer.transport.amqplib"
      [] package = "qpid" -> "gofer.transport.qpid"
      [] package = "nowhere" -> "gofer.transport.nowhere"
      [] OTHER -> package

\* Transport.load(package): the module, or ImportError.
load_raises(package) == package \notin Installed

\* Transport.bind(url, package): the map it leaves.
bind(pkgs, url, package) ==
    IF load_raises(package_of(package))
    THEN pkgs
    ELSE [pkgs EXCEPT ![url_of(url)] = package_of(package)]

\* Transport.__init__(url, package): the map it leaves.
construct(pkgs, url, package) ==
    IF pkgs[url_of(url)] # NotBound THEN pkgs ELSE bind(pkgs, url, package)

TEv(op, url, package, after) ==
    [op |-> op, url |-> url_of(url), package |-> package,
     before |-> packages[url_of(url)], after |-> after[url_of(url)]]

\* ------------------------------------------------------------- transport factory
\* Transport.bind(url, package)
TransportBind ==
    /\ Len(tlog) < MaxBinds
    /\ \E url \in UrlArgs, package \in PackageArgs :
        LET after == bind(packages, url, package) IN
        /\ packages' = after
        /\ tlog' = Append(tlog, TEv("bind", url, package, after))
    /\ UNCHANGED tt
    /\ UNCHANGED besidesTransport

\* Transport(url, package)
TransportNew ==
    /\ Len(tlog) < MaxBinds
    /\ \E url \in UrlArgs, package \in PackageArgs :
        LET after == construct(packages, url, package) IN
        /\ packages' = after
        /\ tlog' = Append(tlog, TEv("new", url, package, after))
    /\ UNCHANGED tt
    /\ UNCHANGED besidesTransport

\* The process starts with an empty Transport.packages.
TransportInit ==
    /\ AgentIdle
    /\ ClientIdle
    /\ AsyncIdle
    /\ PluginServing
    /\ LoaderIdle
    /\ LifeIdle
    /\ packages = [u \in Urls |-> NotBound]
    /\ tlog = <<>>
    /\ tt = <<>>

TransportNext == TransportBind \/ TransportNew

TransportSpec == TransportInit /\ [][TransportNext]_vars

\* ------------------------------------------------------------- concurrent construction bounds
MaxThreads == 2     \* threads constructing a Transport

\* ------------------------------------------------------------- concurrent construction
TransportThreads == 1..MaxThreads

\* A thread before it calls Transport(url, package).
NotCalled == [pc |-> "idle", url |-> "", package |-> "", mod |-> NotBound, self |-> NotBound]

\* Transport.__init__ up to the look-up in the map: self.url is set, and
\* self.package when the URL has an entry; on KeyError the thread enters bind.
NewLookup(t) ==
    /\ tt[t].pc = "idle"
    /\ \E url \in UrlArgs, package \in PackageArgs :
        tt' = [tt EXCEPT ![t] =
                IF packages[url_of(url)] # NotBound
                THEN [@ EXCEPT !.pc = "done", !.url = url_of(url), !.package = package,
                               !.self = packages[url_of(url)]]
                ELSE [@ EXCEPT !.pc = "bind", !.url = url_of(url), !.package = package]]
    /\ UNCHANGED <<packages, tlog>>
    /\ UNCHANGED besidesTransport

\* Transport.bind up to mod = Transport.load(package).
BindLoad(t) ==
    /\ tt[t].pc = "bind"
    /\ tt' = [tt EXCEPT ![t] =
                IF load_raises(package_of(tt[t].package))
                THEN [@ EXCEPT !.pc = "raised"]
                ELSE [@ EXCEPT !.pc = "loaded", !.mod = package_of(tt[t].package)]]
    /\ UNCHANGED <<packages, tlog>>
    /\ UNCHANGED besidesTransport

\* cls.packages[url] = mod; return mod; self.package = the module returned.
BindStore(t) ==
    /\ tt[t].pc = "loaded"
    /\ packages' = [packages EXCEPT ![tt[t].url] = tt[t].mod]
    /\ tt' = [tt EXCEPT ![t] = [@ EXCEPT !.pc = "done", !.self = tt[t].mod]]
    /\ UNCHANGED tlog
    /\ UNCHANGED besidesTransport

\* Threads about to construct a Transport, nothing bound yet.
ConcurrentInit ==
    /\ AgentIdle
    /\ ClientIdle
    /\ AsyncIdle
    /\ PluginServing
    /\ LoaderIdle
    /\ LifeIdle
    /\ packages = [u \in Urls |-> NotBound]
    /\ tlog = <<>>
    /\ tt = [t \in TransportThreads |-> NotCalled]

ConcurrentNext ==
    \E t \in TransportThreads :
        \/ NewLookup(t)
        \/ BindLoad(t)
        \/ BindStore(t)

ConcurrentSpec == ConcurrentInit /\ [][ConcurrentNext]_vars

\* ------------------------------------------------------------- consumer lifecycle bounds
MaxLifeCalls == 5   \* calls of start() and stop() on one consumer

\* ------------------------------------------------------------- consumer lifecycle
\* A thread object: "initial" until start(), then "running", "stopping"
\* once it was told to stop, "ended" when its run() has returned.
\* Thread.start() on a thread that is not "initial" raises RuntimeError.
Thread_start(th) == IF th = "initial" THEN "running" ELSE th

Thread_start_raises(th) == th # "initial"

\* PendingReceiver.start(): a thread's start, or whatever the pending
\* receiver does when it is started again.
Pending_start_raises(th) == IF th = "initial" THEN {FALSE} ELSE BOOLEAN

\* stop() then join(timeout): the thread has ended, or the join timed out
\* and it is still on its way out.
Thread_stopped(th) == IF th = "running" THEN {"stopping", "ended"} ELSE {th}

\* RequestConsumer.__init__ / Consumer.__init__: neither __started flag is
\* set, neither thread started.
Created == [rstarted |-> FALSE, cstarted |-> FALSE, pending |-> "initial", thread |-> "initial"]

\* One entry of llog: the call, the Thread.start() calls it made on the
\* pending receiver and on the receive thread (in that order when both),
\* and whether it raised.
LEv(op, pstart, tstart, raised) ==
    [op |-> op, pstart |-> pstart, tstart |-> tstart, raised |-> raised]

\* RequestConsumer.start(dispatcher), with the Consumer.start it calls.
LifeStart ==
    /\ Len(llog) < MaxLifeCalls
    /\ IF life.rstarted
       THEN /\ llog' = Append(llog, LEv("start", FALSE, FALSE, FALSE))
            /\ life' = life
       ELSE \E praises \in Pending_start_raises(life.pending) :
            IF praises
            THEN /\ llog' = Append(llog, LEv("start", TRUE, FALSE, TRUE))
                 /\ life' = life
            ELSE IF life.cstarted
            THEN /\ llog' = Append(llog, LEv("start", TRUE, FALSE, FALSE))
                 /\ life' = [life EXCEPT !.pending = Thread_start(@), !.rstarted = TRUE]
            ELSE IF Thread_start_raises(life.thread)
            THEN /\ llog' = Append(llog, LEv("start", TRUE, TRUE, TRUE))
                 /\ life' = [life EXCEPT !.pending = Thread_start(@), !.rstarted = TRUE]
            ELSE /\ llog' = Append(llog, LEv("start", TRUE, TRUE, FALSE))
                 /\ life' = [life EXCEPT !.pending = Thread_start(@), !.rstarted = TRUE,
                                         !.thread = Thread_start(@), !.cstarted = TRUE]
    /\ UNCHANGED besidesLifecycle

\* RequestConsumer.stop(), with the Consumer.stop it calls.
LifeStop ==
    /\ Len(llog) < MaxLifeCalls
    /\ llog' = Append(llog, LEv("stop", FALSE, FALSE, FALSE))
    /\ IF ~life.rstarted
       THEN life' = life
       ELSE \E p \in Thread_stopped(life.pending) :
            IF ~life.cstarted
            THEN life' = [life EXCEPT !.pending = p, !.rstarted = FALSE]
            ELSE \E t \in Thread_stopped(life.thread) :
                 life' = [life EXCEPT !.pending = p, !.rstarted = FALSE,
                                      !.thread = t, !.cstarted = FALSE]
    /\ UNCHANGED besidesLifecycle

\* A thread that was told to stop ends.
ThreadEnds ==
    /\ \E th \in {"pending", "thread"} :
        /\ life[th] = "stopping"
        /\ life' = [life EXCEPT ![th] = "ended"]
    /\ UNCHANGED llog
    /\ UNCHANGED besidesLifecycle

\* A consumer as constructed.
LifeInit ==
    /\ AgentIdle
    /\ ClientIdle
    /\ AsyncIdle
    /\ PluginServing
    /\ LoaderIdle
    /\ TransportIdle
    /\ life = Created
    /\ llog = <<>>

LifeNext == LifeStart \/ LifeStop \/ ThreadEnds

LifeSpec == LifeInit /\ [][LifeNext]_vars

\* ------------------------------------------------------------- reading the trace
Idx == 1..Len(trace)

At(e, sn) == {i \in Idx : trace[i].ev = e /\ trace[i].sn = sn}

Started(sn) == At("started", sn)

Replies(sn) == At("reply", sn)

Dispatches(sn) == At("dispatch", sn)

Adds(sn) == At("add", sn)

Acks(sn) == At("ack", sn)

Checks(sn) == At("window", sn)

\* The envelopes that reach RequestConsumer.dispatch.
Requests == {sn \in 1..fetched : inbox[sn].loads /\ valid(inbox[sn])}

\* The receive thread is through with message sn.
Handled(sn) == sn <= fetched /\ cur["rt"].sn # sn

\* What the window of sn was when dispatch first checked it (on receipt).
OnReceipt(sn) ==
    IF Checks(sn) = {} THEN "unchecked"
    ELSE trace[CHOOSE i \in Checks(sn) : \A j \in Checks(sn) : i <= j].res

InPending(sn) == \E i \in 1..Len(pending) : pending[i].sn = sn

\* ------------------------------------------------------------- C1
\* C1 as stated: for every envelope that dispatch handled with replyto set
\* and a window that was not past, any terminal reply with its sn is
\* preceded by exactly one 'started' reply.
C1_StartedBeforeAnyTerminal ==
    \A sn \in Requests :
        (inbox[sn].replyto /\ OnReceipt(sn) \in {"none", "current", "future"}) =>
            \A i \in Replies(sn) :
                Cardinality({j \in Started(sn) : j < i}) = 1

\* C1 amended: no sn gets two 'started' replies; a terminal reply carrying
\* the dispatcher's result is preceded by exactly one 'started' with its sn,
\* sent before the request was handed to the dispatcher; a terminal reply
\* carrying WindowMissed is never accompanied by a 'started', also when the
\* window was still in the future on receipt.
C1_StartedBeforeResult ==
    \A sn \in Requests :
        /\ Cardinality(Started(sn)) <= 1
        /\ \A i \in Dispatches(sn) :
            inbox[sn].replyto => \E j \in Started(sn) : j < i
        /\ \A i \in Replies(sn) :
            IF trace[i].res = "WindowMissed"
            THEN Started(sn) = {}
            ELSE \E j \in Started(sn) : \E d \in Dispatches(sn) : j < d /\ d < i

\* A request parked with a future window was replayed in its window and got
\* 'started' and then its result.
C1_Witness ==
    \E sn \in Requests :
        /\ OnReceipt(sn) = "future"
        /\ \E i \in Replies(sn) : trace[i].res = "result"
        /\ Started(sn) # {}

\* ------------------------------------------------------------- C2
\* C2: at most one terminal reply is ever sent for an envelope's sn.
C2_AtMostOneTerminal ==
    \A sn \in 1..fetched : Cardinality(Replies(sn)) <= 1

\* A pooled request and a window-missed request have both been answered.
C2_Witness ==
    /\ concurrent
    /\ \E sn \in Requests : \E i \in Replies(sn) : trace[i].res = "result"
    /\ \E sn \in Requests : \E i \in Replies(sn) : trace[i].res = "WindowMissed"

\* ------------------------------------------------------------- C3
\* C3: an envelope whose window is past when it is received is never handed
\* to the dispatcher, never parked and gets no 'started'; the only reply
\* with its sn carries WindowMissed; once the receive thread is through with
\* it, it has been acknowledged once and, when it names a replyto, exactly
\* one WindowMissed reply was sent before the ack.
C3_PastWindow ==
    \A sn \in Requests :
        OnReceipt(sn) = "past" =>
            /\ Dispatches(sn) = {}
            /\ Started(sn) = {}
            /\ Adds(sn) = {}
            /\ \A i \in Replies(sn) : trace[i].res = "WindowMissed"
            /\ Cardinality(Replies(sn)) <= 1
            /\ Handled(sn) =>
                /\ Cardinality(Acks(sn)) = 1
                /\ inbox[sn].replyto =>
                    \E i \in Replies(sn) : \A a \in Acks(sn) : i < a

C3_Witness ==
    \E sn \in Requests :
        /\ OnReceipt(sn) = "past"
        /\ inbox[sn].replyto
        /\ Handled(sn)
        /\ Replies(sn) # {}

\* ------------------------------------------------------------- C4
\* C4: as long as the window of a received envelope is in the future, no
\* 'started' and no terminal reply has been sent for it and it has not been
\* handed to the dispatcher; once dispatch has checked it, it is in the
\* pending store, and it was added there before its message was acknowledged.
C4_FutureWindow ==
    \A sn \in Requests :
        future(inbox[sn].window, now) /\ inbox[sn].window.has =>
            /\ Started(sn) = {}
            /\ Replies(sn) = {}
            /\ Dispatches(sn) = {}
            /\ Checks(sn) # {} => (Adds(sn) # {} /\ InPending(sn))
            /\ \A a \in Acks(sn) : \E i \in Adds(sn) : i < a
            /\ Handled(sn) => Acks(sn) # {}

C4_Witness ==
    \E sn \in Requests :
        /\ inbox[sn].window.has
        /\ future(inbox[sn].window, now)
        /\ inbox[sn].replyto
        /\ Acks(sn) # {}

\* ------------------------------------------------------------- C5
\* The receive thread takes a step while it handles an envelope of another
\* version.
MismatchStep ==
    /\ cur["rt"].loads
    /\ ~valid(cur["rt"])
    /\ pc["rt"] \in {"received", "ack"}
    /\ pc'["rt"] # pc["rt"]

\* C5: an envelope of another version gets no 'started', no terminal reply,
\* is not parked and not dispatched, and is acknowledged once; the steps
\* that handle it change nothing but the lock and the ack: the pending
\* store, the pool, its workers and the replay thread are left as they were.
C5_VersionMismatch ==
    /\ [](\A sn \in 1..fetched :
            (inbox[sn].loads /\ inbox[sn].version # version) =>
                /\ Started(sn) = {}
                /\ Replies(sn) = {}
                /\ Dispatches(sn) = {}
                /\ Adds(sn) = {}
                /\ Checks(sn) = {}
                /\ Handled(sn) => Cardinality(Acks(sn)) = 1)
    /\ [][MismatchStep =>
            /\ UNCHANGED <<pending, poolq, wk, res, now, inbox, fetched>>
            /\ pc'["pt"] = pc["pt"] /\ cur'["pt"] = cur["pt"]
            /\ \/ trace' = trace
               \/ trace' = Append(trace, Ev("ack", cur["rt"].sn, "none", TRUE))]_vars

\* An envelope of another version that names a replyto and carries a window
\* has been acknowledged, and a later request has been answered.
C5_Witness ==
    \E sn \in 1..fetched :
        /\ inbox[sn].loads /\ inbox[sn].version # version
        /\ inbox[sn].replyto /\ inbox[sn].window.has
        /\ Acks(sn) # {}
        /\ \E other \in Requests : other > sn /\ Replies(other) # {}

\* ------------------------------------------------------------- C6
\* C6 as stated: with a pool of size 1, requests are dispatched in the order
\* they were fetched, and the reply for one is sent before the next is
\* dispatched.
C6_ArrivalOrder ==
    ~concurrent =>
        \A i, j \in Idx :
            (i < j /\ trace[i].ev = "dispatch" /\ trace[j].ev = "dispatch") =>
                /\ trace[i].sn < trace[j].sn
                /\ inbox[trace[i].sn].replyto =>
                    \E k \in Replies(trace[i].sn) : i < k /\ k < j

\* C6 amended: with a pool of size 1, every dispatch (on receipt or on
\* replay from the pending store) sends its reply before the next request
\* is dispatched; requests that were not parked in the pending store are
\* dispatched, and answered, in the order they were fetched.
C6_SerialOrder ==
    ~concurrent =>
        /\ \A i, j \in Idx :
            (i < j /\ trace[i].ev = "dispatch" /\ trace[j].ev = "dispatch") =>
                /\ inbox[trace[i].sn].replyto =>
                    \E k \in Replies(trace[i].sn) : i < k /\ k < j
                /\ (Adds(trace[i].sn) = {} /\ Adds(trace[j].sn) = {}) =>
                    trace[i].sn < trace[j].sn
        /\ \A i, j \in Idx :
            (/\ i < j
             /\ trace[i].ev = "reply" /\ trace[j].ev = "reply"
             /\ Adds(trace[i].sn) = {} /\ Adds(trace[j].sn) = {}) =>
                trace[i].sn < trace[j].sn

\* Two requests were dispatched inline one after the other, both answered.
C6_Witness ==
    /\ ~concurrent
    /\ \E i, j \in Idx :
        /\ i < j
        /\ trace[i].ev = "dispatch" /\ trace[j].ev = "dispatch"
        /\ Replies(trace[i].sn) # {} /\ Replies(trace[j].sn) # {}

\* ------------------------------------------------------------- reading a synchronous call
\* The envelopes with the call's sn that the searches of a phase returned.
ReadIn(phase) == {i \in 1..Len(read) : read[i].phase = phase}

\* send has gone past __get_started.
BeyondPhaseA ==
    \/ spc \in {"B", "B_done", "progress"}
    \/ spc = "end" /\ outcome \notin {"RequestTimeout0", "SendError"}

\* The progress reports read so far.
Reports == SelectSeq(read, LAMBDA r : r.env.status = "progress")

\* ------------------------------------------------------------- C7
\* C7: send goes past phase A only when an envelope with the request's sn
\* was read within timeout.start of the beginning of phase A; otherwise it
\* raises RequestTimeout(sn, 0) and phase B is never entered.
C7_StartTimeout ==
    /\ BeyondPhaseA =>
        \E i \in ReadIn("A") : read[i].after <= Seconds(timeout.start)
    /\ (spc = "end" /\ outcome # "SendError" /\ ReadIn("A") = {}) =>
        (outcome = "RequestTimeout0" /\ ReadIn("B") = {} /\ waited = 0)

\* ------------------------------------------------------------- C8
\* C8: in phase B the time spent waiting in the searches, summed over all of
\* them, never exceeds timeout.duration, and the remaining budget is the
\* duration less the elapsed intervals observed so far.
C8_DurationBudget ==
    /\ waited + (IF spc \in {"B", "B_done"} THEN swait ELSE 0)
        <= Seconds(timeout.duration)
    /\ spc \in {"B", "B_done", "progress"} =>
        remaining = Seconds(timeout.duration) - waited

\* ------------------------------------------------------------- C9
\* C9: in phase B the first envelope with the call's sn whose status is not
\* 'progress' ends the call: nothing is read after it, and send returns its
\* retval when its result succeeded and raises RemoteException otherwise.
C9_TerminalEndsCall ==
    \A i \in ReadIn("B") :
        read[i].env.status # "progress" =>
            /\ i = Len(read)
            /\ spc \in {"B_done", "end"}
            /\ spc = "end" => outcome = on_reply(read[i].env)

\* ------------------------------------------------------------- C10
\* C10: with a progress callback set, the callback is invoked once for each
\* progress envelope with the call's sn that is read, in the order they are
\* read, and before send ends; a callback that raises does not end the call.
C10_ProgressCallbacks ==
    progress \in {"ok", "raises"} =>
        /\ Len(called) <= Len(Reports)
        /\ \A i \in 1..Len(called) : called[i] = Reports[i].env.n
        /\ spc \in {"A", "B", "end"} => Len(called) = Len(Reports)

\* ------------------------------------------------------------- claim C11
ForeignIn(q) == {i \in 1..Len(q) : q[i].sn # MySn}

\* C11: Reader.search(sn, timeout) returns an envelope whose sn is the one
\* asked for, or nothing; every envelope with another sn that it fetched on
\* the way was acknowledged and dropped, so what the caller gets (and every
\* envelope send ever read) is never a reply of another call, and every
\* foreign envelope that reached the queue is either still queued or was
\* acknowledged by the search.
C11_SearchMatchesSn ==
    /\ found = NoReply \/ found.sn = MySn
    /\ \A i \in 1..Len(read) : read[i].env.sn = MySn
    /\ \A i \in 1..Len(acked) : acked[i].sn # MySn
    /\ nforeign = Len(acked) + Cardinality(ForeignIn(rq))

\* A search dropped the reply of another call and then returned the
\* envelope of this call.
C11_Witness ==
    /\ spc \in {"A_done", "B_done"}
    /\ acked # <<>>
    /\ found # NoReply
    /\ found.sn = MySn

\* ------------------------------------------------------------- claims C12 to C15
ALog == 1..Len(alog)

Calls == 1..Len(returned)

\* The requests that left: calls of producer.send that did not raise.
Sent(sn) == {i \in ALog : alog[i].ev = "send" /\ alog[i].ok /\ alog[i].sn = sn}

SentBy(call) == {i \in ALog : alog[i].ev = "send" /\ alog[i].ok /\ alog[i].call = call}

Tracks(sn) == {i \in ALog : alog[i].ev = "track" /\ alog[i].sn = sn}

\* C12: a trigger fires once.  Over any sequence of calls on one Trigger its
\* request is sent at most once, and a call on a trigger whose request has
\* been sent raises 'trigger already executed' and sends nothing.
C12_FiresOnce ==
    /\ \A k \in 1..Len(triggers) : Cardinality(Sent(triggers[k].sn)) <= 1
    /\ \A c \in Calls :
        /\ returned[c].raised = "trigger already executed" => SentBy(c) = {}
        /\ (/\ returned[c].op = "call"
            /\ \E i \in Sent(triggers[returned[c].trigs[1]].sn) : alog[i].call < c)
           => returned[c].raised = "trigger already executed"

\* Everything call c made producer.send and watchdog.track do.
EventsOf(c) == {i \in ALog : alog[i].call = c}

\* C13: Asynchronous.send with trigger == 1 sends nothing and returns one
\* unfired Trigger (it stays pending until a later call fires it); with any
\* other value a send that returns has sent exactly one request and returns
\* the sn that request carries.  The sn of a trigger is the one it got when it
\* was constructed, and whatever is sent for a trigger carries that sn.
C13_SendModes ==
    /\ \A c \in Calls : returned[c].op = "send" =>
        IF atrigger = 1
        THEN /\ returned[c].raised = "none"
             /\ EventsOf(c) = {}
             /\ Len(returned[c].trigs) = 1
             /\ returned[c].sns = <<>>
             /\ LET k == returned[c].trigs[1] IN
                 /\ k \in 1..Len(triggers)
                 /\ \A i \in ALog : alog[i].sn = triggers[k].sn => alog[i].call > c
                 /\ \/ triggers[k].pending
                    \/ \E d \in Calls : d > c /\ returned[d].op = "call" /\ returned[d].trigs = <<k>>
        ELSE /\ returned[c].trigs = <<>>
             /\ returned[c].raised = "none" =>
                 /\ Cardinality(SentBy(c)) = 1
                 /\ Len(returned[c].sns) = 1
                 /\ \A i \in SentBy(c) : alog[i].sn = returned[c].sns[1]
    /\ \A k \in 1..Len(triggers) : triggers[k].sn = k
    /\ \A c \in Calls : returned[c].op = "call" =>
        \A i \in EventsOf(c) : alog[i].sn = triggers[returned[c].trigs[1]].sn

\* A manual send returned a trigger, and a later call fired it.
C13_Witness ==
    /\ atrigger = 1
    /\ \E c, d \in Calls :
        /\ c < d
        /\ returned[c].op = "send"
        /\ returned[d].op = "call"
        /\ returned[d].raised = "none"
        /\ returned[d].trigs = returned[c].trigs
        /\ SentBy(d) # {}

\* C14: Asynchronous.broadcast builds one trigger per destination, in list
\* order, each with its own sn.  In manual mode it returns those triggers
\* unfired and sends nothing; otherwise a broadcast that returns has sent one
\* request per destination, in list order, and returns their sns in that
\* order.
C14_Broadcast ==
    \A c \in Calls : returned[c].op = "broadcast" =>
        LET dests == returned[c].args
            n == Len(dests)
            b == returned[c].built
        IN  /\ Len(b) = n
            /\ \A i \in 1..n : triggers[b[i]].destination = dests[i]
            /\ \A i, j \in 1..n : i < j =>
                    b[i] < b[j] /\ triggers[b[i]].sn # triggers[b[j]].sn
            /\ IF atrigger = 1
               THEN /\ returned[c].raised = "none"
                    /\ returned[c].trigs = b
                    /\ returned[c].sns = <<>>
                    /\ EventsOf(c) = {}
                    /\ \A i \in 1..n :
                        \/ triggers[b[i]].pending
                        \/ \E d \in Calls : d > c /\ returned[d].op = "call"
                                                  /\ returned[d].trigs = <<b[i]>>
               ELSE /\ returned[c].trigs = <<>>
                    /\ returned[c].raised = "none" =>
                        /\ returned[c].sns = [i \in 1..n |-> triggers[b[i]].sn]
                        /\ Cardinality(SentBy(c)) = n
                        /\ \A i \in 1..n :
                            \E k \in SentBy(c) :
                                /\ alog[k].sn = returned[c].sns[i]
                                /\ alog[k].destination = dests[i]
                                /\ Cardinality({m \in SentBy(c) : m < k}) = i - 1

\* An automatic broadcast over two destinations returned two sns.
C14_Witness ==
    /\ atrigger # 1
    /\ \E c \in Calls :
        /\ returned[c].op = "broadcast"
        /\ returned[c].raised = "none"
        /\ Len(returned[c].args) = MaxDests
        /\ returned[c].args[1] # returned[c].args[2]
        /\ Len(returned[c].sns) = MaxDests
        /\ Cardinality(SentBy(c)) = MaxDests

\* All of what notifywatchdog needs is set on the policy.
AllSet ==
    /\ watchdog # ""
    /\ ctag # ""
    /\ atimeout.start # None
    /\ atimeout.duration # None

\* C15: firing a trigger sends the request with the replyto derived from the
\* policy's ctag (none when no ctag is set) and then notifies the watchdog
\* with the same sn, replyto and timeout.  The watchdog is notified only
\* directly after a send of the same firing that succeeded, and only when a
\* watchdog, a ctag and both timeout values are set; when they are, a send
\* that succeeded is followed by the notification unless closing the producer
\* raised.
C15_SendThenNotify ==
    /\ \A j \in ALog : alog[j].ev = "send" =>
        /\ alog[j].replyto = (IF ctag # "" THEN [has |-> TRUE, queue |-> ctag]
                                            ELSE NoDestination)
        /\ (alog[j].ok /\ AllSet) =>
            \/ /\ j + 1 \in ALog
               /\ alog[j + 1].ev = "track"
               /\ alog[j + 1].sn = alog[j].sn
               /\ alog[j + 1].call = alog[j].call
            \/ /\ returned[alog[j].call].raised = "close"
               /\ \A i \in EventsOf(alog[j].call) : i <= j
    /\ \A k \in ALog : alog[k].ev = "track" =>
        /\ AllSet
        /\ k > 1
        /\ alog[k - 1].ev = "send"
        /\ alog[k - 1].ok
        /\ alog[k - 1].call = alog[k].call
        /\ alog[k - 1].sn = alog[k].sn
        /\ alog[k - 1].replyto = alog[k].replyto
        /\ alog[k].timeout = atimeout

\* A trigger was fired on a policy with everything set, and the watchdog
\* was notified.
C15_Witness ==
    /\ AllSet
    /\ \E k \in ALog : alog[k].ev = "track" /\ alog[k].ok

\* ------------------------------------------------------------- claims C16, C17
\* No consumer was started between positions d and i of the trace.
StillDetached(d, i) == \A a \in Idx : (d < a /\ a < i) => trace[a].ev # "start"

\* The request was fetched before position d of the trace.
FetchedBefore(sn, d) == \E f \in Idx : f < d /\ trace[f].ev = "fetch" /\ trace[f].sn = sn

\* Once detach has stopped the consumer (the latest point that "detach has
\* been called" can mean), and until the plugin is attached again, only
\* requests that had been fetched by then are dispatched.
NoNewDispatch ==
    \A d, i \in Idx :
        (/\ trace[d].ev = "stop"
         /\ d < i
         /\ trace[i].ev = "dispatch"
         /\ StillDetached(d, i)) => FetchedBefore(trace[i].sn, d)

\* When detach has returned the receive thread has ended, and it ended
\* between two requests, not inside one.
InFlightCompleted ==
    (~attached /\ dpc = "idle") => (pc["rt"] = "stopped" /\ cur["rt"] = NoEnv)

\* A detach of a plugin without a consumer is followed by no stop, join or
\* delete.
DetachedIsNoop ==
    \A d \in Idx :
        (trace[d].ev = "detach" /\ trace[d].res = "none" /\ d < Len(trace)) =>
            trace[d + 1].ev \notin {"stop", "stopped", "joined", "delete"}

\* C16: Plugin.detach() can be called repeatedly and while a request is in
\* flight: the request being dispatched runs to completion, no new dispatch
\* begins once detach() has been called, and detach() on a plugin without a
\* consumer does nothing.
C16_DetachSafe ==
    /\ NoNewDispatch
    /\ InFlightCompleted
    /\ DetachedIsNoop

\* C17: Plugin.detach() stops the consumer, joins it, and then deletes the
\* agent queue if and only if the queue is managed.  The queue is deleted
\* only with the consumer stopped and its thread ended; every delete comes
\* right after the join of the same detach, which comes after its stop; once
\* a detach of an attached plugin has returned the queue is gone exactly
\* when it is managed, and an unmanaged queue is never deleted.
C17_DeleteIfManaged ==
    /\ dpc = "delete" => (pc["rt"] = "stopped" /\ ~run /\ ~started /\ ~attached)
    /\ \A k \in Idx : trace[k].ev = "delete" =>
        /\ k > 1
        /\ trace[k - 1].ev = "joined"
        /\ \E j \in Idx : j < k /\ trace[j].ev = "stop" /\ StillDetached(j, k)
        /\ trace[k].res = (IF managed THEN "deleted" ELSE "declared")
    /\ (~attached /\ dpc = "idle" /\ queue # "none") => ((queue = "deleted") = managed)
    /\ ~managed => queue # "deleted"

\* A detach of an attached plugin with an unmanaged queue has returned.
C17_Witness ==
    /\ ~managed
    /\ ~attached
    /\ dpc = "idle"
    /\ queue = "declared"
    /\ \E k \in Idx : trace[k].ev = "delete"

\* ------------------------------------------------------------- claims C18, C19
Done(i) == i < lidx

IsLoaded(i) == \E k \in 1..Len(loaded) : loaded[k] = i

\* The import of plugin i was tried and failed.
Failed(i) == Done(i) /\ descriptors[i].enabled /\ ~IsLoaded(i)

Registered(i) == \E kind \in {"name", "path"}, n \in PluginIds : plugins[kind][n] = i

\* C18 as stated: a plugin whose import failed is registered under no name,
\* is not in the list load() is building, and keeps no later plugin from
\* being loaded: a later plugin whose own module imports and initialises, and
\* whose extends (if set) names the failed plugin or a registered one, is
\* loaded.
C18_FailureIsolated ==
    \A i \in PluginIds : Failed(i) =>
        /\ ~Registered(i)
        /\ \A j \in PluginIds :
            (/\ i < j
             /\ Done(j)
             /\ descriptors[j].enabled
             /\ descriptors[j].fail = "none"
             /\ \/ descriptors[j].extends \in {0, i}
                \/ Plugin_find(plugins, descriptors[j].extends) # 0) => IsLoaded(j)

\* C18, amended: a plugin whose import failed is registered under no name
\* and is not in the list; every plugin in the list is still imported, and
\* it is loaded exactly when it is enabled, its own module imports and
\* initialises, and the plugin it extends (if any) was loaded.
C18_FailureUnregistered ==
    /\ \A i \in PluginIds : Failed(i) => ~Registered(i)
    /\ \A j \in PluginIds : Done(j) =>
        (IsLoaded(j) <=>
            /\ descriptors[j].enabled
            /\ descriptors[j].fail = "none"
            /\ \/ descriptors[j].extends = 0
               \/ /\ descriptors[j].extends \in PluginIds
                  /\ IsLoaded(descriptors[j].extends))
    /\ \A i \in PluginIds : IsLoaded(i) =>
        /\ plugins["name"][i] = i
        /\ descriptors[i].path => plugins["path"][i] = i

\* A plugin that was registered under two names failed in an initializer,
\* and a later plugin was loaded.
C18_Witness ==
    \E i, j \in PluginIds :
        /\ i < j
        /\ Failed(i)
        /\ descriptors[i].path
        /\ descriptors[i].fail = "init"
        /\ IsLoaded(j)

\* Plugin c was merged into plugin a by extend().
Merged(c, a) ==
    /\ Done(c)
    /\ descriptors[c].enabled
    /\ descriptors[c].fail # "import"
    /\ descriptors[c].extends = a
    /\ IsLoaded(a)

\* C19 as stated: when plugin b extends plugin a and both load, every entry
\* of b's dispatcher is in a's dispatcher with the same implementation: each
\* class under its name, each function in the module entry named after a.
C19_EveryEntry ==
    \A b \in PluginIds :
        (IsLoaded(b) /\ descriptors[b].extends \in PluginIds) =>
            LET a == descriptors[b].extends IN
            \A k \in Entries :
                /\ dispatcher[b].cls[k] # 0 => dispatcher[a].cls[k] = dispatcher[b].cls[k]
                /\ dispatcher[b].fns[k] # 0 => dispatcher[a].fns[k] = dispatcher[b].fns[k]

\* C19, amended: when plugin b extends plugin a and both load, what b's module
\* defines is in a's dispatcher with b's implementation: each class under
\* its name, each function in the module entry named after a.  An entry
\* whose name only b uses stays so; an entry whose name other plugins use
\* too is b's as long as no later plugin extending a has replaced it.  The
\* entries of a that b does not name are unchanged.
C19_ExtendsMerges ==
    \A b \in PluginIds :
        (IsLoaded(b) /\ descriptors[b].extends \in PluginIds) =>
            LET a == descriptors[b].extends IN
            /\ IsLoaded(a)
            /\ dispatcher[a].cls[b] = b
            /\ dispatcher[a].fns[b] = b
            /\ (\A c \in PluginIds : Merged(c, a) => c <= b) =>
                    (dispatcher[a].cls[0] = b /\ dispatcher[a].fns[0] = b)
            /\ dispatcher[a].cls[a] = a
            /\ dispatcher[a].fns[a] = a

\* A plugin that extends another was loaded.
C19_Witness ==
    \E b \in PluginIds :
        /\ IsLoaded(b)
        /\ descriptors[b].extends \in PluginIds
        /\ dispatcher[descriptors[b].extends].fns[0] = b

\* ------------------------------------------------------------- claim C20
\* C20: once a URL has an entry in Transport.packages, no later call of
\* Transport(url, package) or Transport.bind(url, package) changes the
\* implementation bound to that URL.
C20_OneBinding ==
    \A k \in 1..Len(tlog) :
        tlog[k].before # NotBound => tlog[k].after = tlog[k].before

\* ------------------------------------------------------------- claim C21
\* C21: when several threads construct Transport for the same URL, not yet
\* bound, the map ends with one entry for that URL and every Transport
\* constructed uses the implementation in that entry.
C21_ThreadSafe ==
    \A t \in TransportThreads :
        tt[t].pc = "done" => tt[t].self = packages[tt[t].url]

\* ------------------------------------------------------------- claim C22
\* C22: when Synchronous.send has ended, however it ended, the producer it
\* created is closed and no endpoint of its reader is left open.
C22_EndpointsClosed ==
    (spc = "end" /\ outcome # "none") =>
        /\ producer = "closed"
        /\ reader.endpoint # "open"

\* ------------------------------------------------------------- claim C23
\* The sends of a 'started' or of a terminal reply that failed.
FailedSends == {i \in Idx : trace[i].ev \in {"started", "reply"} /\ ~trace[i].ok}

\* C23: a send of 'started' or of a terminal reply that fails does not leave
\* sendstarted / sendreply: after a failed 'started' the request is still
\* dispatched, and after either failure the inbound message is still
\* acknowledged and the receive loop goes on to the next fetch.
C23_SendFailureContained ==
    \A i \in FailedSends :
        LET sn == trace[i].sn IN
        /\ trace[i].ev = "started" =>
            \/ \E j \in Dispatches(sn) : j > i
            \/ \E t \in {"rt", "pt"} : cur[t].sn = sn /\ pc[t] = "dispatch"
        /\ Handled(sn) => Acks(sn) # {}
        /\ (Handled(sn) /\ fetched = sn) => pc["rt"] = "fetch"

\* The 'started' of a request and its terminal reply both failed to be
\* sent; the request was dispatched and acknowledged and the loop fetched
\* the next message.
C23_Witness ==
    \E i, k \in FailedSends :
        /\ trace[i].ev = "started"
        /\ trace[k].ev = "reply"
        /\ trace[k].sn = trace[i].sn
        /\ Dispatches(trace[i].sn) # {}
        /\ Acks(trace[i].sn) # {}
        /\ fetched > trace[i].sn

\* ------------------------------------------------------------- claim C24
Execs(sn) == At("exec", sn)

\* Every event of the first kind comes before every event of the second.
Before(first, second) == \A i \in first, j \in second : i < j

\* The requests __dispatch took past its window check when they were
\* received.
DispatchedOnReceipt == {sn \in 1..fetched : OnReceipt(sn) \in {"none", "current"}}

C25_ReceiveLoopFirst ==
    \A i \in Idx : trace[i].ev = "pending.stop" =>
        \E j, k \in Idx :
            /\ j < k
            /\ k < i
            /\ trace[j].ev = "stop"
            /\ trace[k].ev = "stopped"
            /\ \A a \in Idx : (j < a /\ a < i) => trace[a].ev # "start"

\* ------------------------------------------------------------- claim C26
LLog == 1..Len(llog)

\* C26: over any sequence of start() and stop() calls on one consumer,
\* Thread.start() is called at most once on the pending replay thread and at
\* most once on the receive thread, no call of start() fails, and a start()
\* that starts the receive thread has started the pending replay thread
\* before it.
C26_StartedOnce ==
    /\ Cardinality({i \in LLog : llog[i].pstart}) <= 1
    /\ Cardinality({i \in LLog : llog[i].tstart}) <= 1
    /\ \A i \in LLog : ~llog[i].raised
    /\ \A i \in LLog : llog[i].tstart => llog[i].pstart

\* ------------------------------------------------------------- claim C27
\* C27: Plugin.attach() detaches any current consumer first, then refreshes
\* the broker configuration, declares the queue, creates the consumer,
\* installs the authenticator on it and starts it, in that order; nothing
\* is fetched before a consumer was started, so not before the queue was
\* declared and the authenticator installed; the plugin has a consumer only
\* once it was started; and when uuid or url is missing nothing is
\* declared or started and the plugin has no consumer.
C27_AttachOrder ==
    /\ \A i \in Idx : trace[i].ev = "start" =>
        /\ i > 5
        /\ trace[i - 4].ev = "refresh"
        /\ trace[i - 3].ev = "declare" /\ trace[i - 3].ok
        /\ trace[i - 2].ev = "consumer"
        /\ trace[i - 1].ev = "authenticator"
        /\ \/ trace[i - 5].ev = "attach" /\ trace[i - 5].res = "none"
           \/ /\ trace[i - 5].ev = "delete"
              /\ \E a, j \in Idx :
                    /\ a < j
                    /\ j < i - 5
                    /\ trace[a].ev = "attach" /\ trace[a].res = "consumer"
                    /\ trace[j].ev = "joined"
                    /\ \A k \in Idx : (a < k /\ k < i) => trace[k].ev # "start"
    /\ \A i \in Idx : trace[i].ev = "fetch" =>
        \E j \in Idx : j < i /\ trace[j].ev = "start"
    /\ attached => \E i \in Idx : trace[i].ev = "start"
    /\ ~(addr.uuid /\ addr.url) =>
        /\ ~attached
        /\ ~started
        /\ queue = "none"
        /\ \A i \in Idx : trace[i].ev \notin
                {"refresh", "declare", "consumer", "authenticator", "start", "fetch"}

\* attach() was called on a plugin that had a consumer, and has started the
\* new consumer.
C27_Witness ==
    \E a, i \in Idx :
        /\ a < i
        /\ trace[a].ev = "attach"
        /\ trace[a].res = "consumer"
        /\ trace[i].ev = "start"

\* ------------------------------------------------------------- claim C28
\* C28: an exception other than a link error raised in the receive loop is
\* logged and the loop goes on; on a link error the thread exits; and
\* whenever the thread has exited, it has closed the receiver it opened.
C28_ReceiverClosed ==
    /\ (pc["rt"] = "stopped" /\ receiver # "none") => receiver = "closed"
    /\ \A i \in Raised :
        (trace[i].res = "Exception" /\ i = Len(trace)) => pc["rt"] \in {"fetch", "closing"}

\* ------------------------------------------------------------- claim C29
\* Thread t is inside Consumer.received or RequestConsumer.dispatch.
Inside(t) == pc[t] \in {"checkwindow", "started", "dispatch", "reply", "done", "ack"}

\* A thread is inside received / dispatch exactly when it holds the lock.
LockHeldInside == \A t \in {"rt", "pt"} : Inside(t) <=> lock = t

\* The step sends a 'started' or a terminal reply.
SendStep ==
    /\ Len(trace') = Len(trace) + 1
    /\ trace'[Len(trace')].ev \in {"started", "reply"}

\* The sender of the step holds the endpoint lock, or is a pool worker that
\* takes it for the send while no other thread holds it.
SenderHoldsLock ==
    \/ \E t \in {"rt", "pt"} : pc[t] \in {"started", "reply"} /\ pc'[t] # pc[t] /\ lock = t
    \/ \E w \in 1..poolsize : wk[w].st = "done" /\ wk'[w].st = "idle" /\ lock = "free"

\* C29: the receive thread and the pending replay thread are never both
\* inside received / dispatch of the consumer, each is inside only while it
\* holds the endpoint lock, and every send of a reply is made by the thread
\* that holds the lock, so no two sends overlap and no pool worker sends
\* while another thread is inside received / dispatch.
C29_Serialized ==
    /\ [](LockHeldInside /\ ~(Inside("rt") /\ Inside("pt")))
    /\ [][SendStep => SenderHoldsLock]_vars

\* The receive thread is inside received, the replay thread waits for the
\* lock, and a pool worker has a reply to send.
C29_Witness ==
    /\ lock = "rt"
    /\ Inside("rt")
    /\ pc["pt"] = "lock"
    /\ \E w \in 1..poolsize : wk[w].st = "done" /\ wk[w].env.replyto

\* ------------------------------------------------------------- claim C30
\* C30: the time Reader.search(sn, timeout) waits, summed over every fetch
\* it makes, does not exceed the timeout it was given.
C30_SearchDeadline ==
    spc \in {"A", "A_done", "B", "B_done"} => swait <= ftimeout

\* ------------------------------------------------------------- claim C31
\* The module of plugin p was imported, so its decorators ran.
Declared(p) ==
    /\ Done(p)
    /\ descriptors[p].enabled
    /\ descriptors[p].fail # "import"

\* The plugins whose descriptor names p in extends.
Extenders(p) == {c \in PluginIds : descriptors[c].extends = p}

FailedImport ==
    /\ lidx' = lidx + 1
    /\ descriptors[lidx].enabled
    /\ loaded' = loaded

\* C36: when the import of a plugin fails, at whatever step, the dispatcher
\* of every other plugin (the plugin it extends included) and the names the
\* other plugins are registered under in Plugin.plugins are as they were
\* before the import began.
C36_FailedLoadFrame ==
    [][FailedImport =>
        \A q \in PluginIds \ {lidx} :
            /\ dispatcher'[q] = dispatcher[q]
            /\ \A kind \in {"name", "path"}, n \in PluginIds :
                (plugins[kind][n] = q) <=> (plugins'[kind][n] = q)]_vars

\* ------------------------------------------------------------- claim C32
\* The acknowledgements of the message fetched at position i that precede
\* position j of the trace.
AcksBetween(i, j) ==
    {a \in Idx : i < a /\ a < j /\ trace[a].ev = "ack" /\ trace[a].sn = trace[i].sn}

\* C32: every message the receive loop fetched is acknowledged exactly once
\* before the next message is fetched, whatever happened while it was
\* processed, and never more than once.
C32_AckedBeforeNextFetch ==
    \A i \in Idx : trace[i].ev = "fetch" =>
        /\ Cardinality(AcksBetween(i, Len(trace) + 1)) <= 1
        /\ \A j \in Idx :
            (i < j /\ trace[j].ev = "fetch") => Cardinality(AcksBetween(i, j)) = 1

\* ------------------------------------------------------------- claim C33
\* The terminal envelopes with the call's sn that send has read, in either
\* phase.
Terminals == {i \in 1..Len(read) : read[i].env.status = "reply"}

\* C33: a terminal envelope with the call's sn that is read from the reply
\* queue, in phase A in place of 'started' or in phase B, is the last
\* envelope send reads, and send ends with it: it returns the retval or
\* raises the remote exception.
C33_TerminalDelivered ==
    \A i \in Terminals :
        /\ i = Len(read)
        /\ spc \in {"A_done", "B_done", "end"}
        /\ spc = "end" => outcome = on_reply(read[i].env)

\* ------------------------------------------------------------- claim C35
\* The calls that fire one trigger: a call of a trigger the caller holds, and
\* a send that fires the trigger it built.
Firings ==
    {c \in Calls : \/ returned[c].op = "call"
                   \/ returned[c].op = "send" /\ ~manual(atrigger)}

TriggerOf(c) ==
    IF returned[c].op = "call" THEN returned[c].trigs[1] ELSE returned[c].built[1]

\* C35: a trigger whose firing raised stays pending and can be called again:
\* the pending flag is cleared only by a firing in which the send and the
\* watchdog notification both completed, a call raises 'trigger already
\* executed' only after such a firing, and the watchdog is never notified in
\* a firing whose send failed.
C35_PendingUntilFired ==
    /\ \A c \in Firings :
        /\ ~triggers[TriggerOf(c)].pending =>
            \E d \in Firings : TriggerOf(d) = TriggerOf(c) /\ returned[d].raised = "none"
        /\ returned[c].raised = "none" =>
            /\ ~triggers[TriggerOf(c)].pending
            /\ \E i \in EventsOf(c) : alog[i].ev = "send" /\ alog[i].ok
            /\ tracked(replyto) => \E i \in EventsOf(c) : alog[i].ev = "track" /\ alog[i].ok
        /\ returned[c].raised = "trigger already executed" =>
            \E d \in Firings :
                d < c /\ TriggerOf(d) = TriggerOf(c) /\ returned[d].raised = "none"
    /\ \A i \in ALog : alog[i].ev = "track" =>
        /\ \E j \in ALog :
            /\ j < i
            /\ alog[j].ev = "send"
            /\ alog[j].ok
            /\ alog[j].call = alog[i].call
            /\ alog[j].sn = alog[i].sn
        /\ \A j \in EventsOf(alog[i].call) :
            (alog[j].ev = "send" /\ alog[j].sn = alog[i].sn) => alog[j].ok

\* A trigger was called and its send failed; it was called again, the
\* request was sent and the watchdog notified.
C35_Witness ==
    \E c, d \in Firings :
        /\ c < d
        /\ TriggerOf(c) = TriggerOf(d)
        /\ returned[c].raised = "send"
        /\ returned[d].raised = "none"
        /\ \E i \in EventsOf(d) : alog[i].ev = "track" /\ alog[i].ok
        /\ ~triggers[TriggerOf(d)].pending

\* ------------------------------------------------------------- claim C34
\* Every thread has left Trigger.__call__, and none because sending raised.
AllCalled == \A t \in Callers : tpc[t] \in {"returned", "already executed"}

\* C34: when the threads call the same trigger concurrently and nothing
\* fails, whatever the interleaving the request is sent exactly once, one
\* call returns and every other call raises 'trigger already executed'.
C34_ConcurrentOnce ==
    AllCalled =>
        /\ Cardinality(Sent(triggers[Shared].sn)) = 1
        /\ Cardinality({t \in Callers : tpc[t] = "returned"}) = 1

\* ------------------------------------------------------------- claim C37
\* The consumers plugin.attach has started, by position in the trace.
Starts == {i \in Idx : trace[i].ev = "start"}

\* The receive thread was ended by a LinkError after position i.
AbortedSince(i) ==
    \E k \in Idx : i < k /\ trace[k].ev = "raised" /\ trace[k].res = "LinkError"

Processing ==
    {"failed", "window", "add", "started", "dispatch", "exec", "reply", "ack"}

\* C38: once Consumer.stop() has returned, the receive thread processes no
\* further message: nothing is done inside received() or dispatch after
\* stop() returned and before the next consumer is started.
C38_StoppedMeansQuiet ==
    \A i, j \in Idx :
        (/\ i < j
         /\ trace[i].ev = "stopped"
         /\ trace[j].ev \in Processing) =>
            \E k \in Idx : i < k /\ k < j /\ trace[k].ev = "start"
====
